---- MODULE Spec2Model ----
(***************************************************************************)
(* Model of examples/imessage.py: the contact bridge (normalize_phone,     *)
(* load_contact_cache, run_applescript, get_all_contacts).                 *)
(*                                                                         *)
(* Text is modelled as a sequence of one-character strings, so that the    *)
(* delimiter protocol (format in the generated script, split/strip in the  *)
(* Python code) is computed and not assumed.                               *)
(***************************************************************************)
EXTENDS Integers, Sequences, FiniteSets, TLC

VARIABLES
    book,                  \* people of the Contacts application (external state)
    CONTACT_CACHE,         \* global, imessage.py:54  (None or a dict name -> phones)
    CONTACT_PHONE_LOOKUP,  \* global, imessage.py:55  (None or a dict digits -> name)
    pc,                    \* per caller: position inside load_contact_cache
    ext,                   \* per caller: outcome of its external call (subprocess.run)
    pos,                   \* per caller: number of dict stores of the parse loop done
    ret,                   \* per caller: how its last invocation ended
    inv,                   \* per caller: number of invocations started
    calls,                 \* number of external enumerations issued so far
    populated,             \* some invocation finished populating from a successful enumeration
    call,                  \* arguments of the tool / pure function call under examination
    result,                \* its result
    store,                 \* the message database file (external state)
    conns                  \* connections to it: the open ones, and counts of opens and queries

vars == <<book, CONTACT_CACHE, CONTACT_PHONE_LOOKUP, pc, ext, pos, ret, inv,
          calls, populated, call, result, store, conns>>

cacheVars == <<CONTACT_CACHE, CONTACT_PHONE_LOOKUP, pc, ext, pos, ret, inv, calls, populated>>

storeVars == <<store, conns>>

----------------------------------------------------------------------------
(* Bounds *)

MaxPeople == 2          \* people in the address book
MaxInvocations == 2     \* invocations of load_contact_cache per caller
MaxPhoneLen == 11       \* length of the argument of normalize_phone
MaxOffset == 3          \* largest offset argument of get_all_contacts
MaxLimit == 3           \* largest limit argument of get_all_contacts
MaxMessages == 3        \* messages in the store

Threads == {"t1", "t2"}

----------------------------------------------------------------------------
(* Python values *)

None == {}                         \* an optional value is a set of at most one value
Some(v) == {v}
Val(o) == CHOOSE v \in o : TRUE

EmptyDict == [k \in {} |-> {}]
DictPut(d, k, v) == [x \in (DOMAIN d) \cup {k} |-> IF x = k THEN v ELSE d[x]]

Digits == {"0", "1", "2", "3", "4", "5", "6", "7", "8", "9"}
Whitespace == {" ", "\n", "\t"}

IsDigit(c) == c \in Digits

\* str.strip()
RECURSIVE LStrip(_)
LStrip(s) == IF s # <<>> /\ Head(s) \in Whitespace THEN LStrip(Tail(s)) ELSE s

RECURSIVE RStrip(_)
RStrip(s) == IF s # <<>> /\ s[Len(s)] \in Whitespace
             THEN RStrip(SubSeq(s, 1, Len(s) - 1)) ELSE s

Strip(s) == RStrip(LStrip(s))

\* str.split(d) for a one-character delimiter: always at least one part
RECURSIVE Split(_, _)
Split(s, d) ==
    IF \E i \in 1..Len(s) : s[i] = d
    THEN LET i == CHOOSE j \in 1..Len(s) : s[j] = d /\ \A k \in 1..(j - 1) : s[k] # d
         IN  <<SubSeq(s, 1, i - 1)>> \o Split(SubSeq(s, i + 1, Len(s)), d)
    ELSE <<s>>

\* AppleScript: list as string with text item delimiters d
RECURSIVE Join(_, _)
Join(l, d) == IF l = <<>> THEN <<>>
              ELSE IF Len(l) = 1 THEN l[1]
              ELSE l[1] \o d \o Join(Tail(l), d)

StartsWith(s, p) == Len(s) >= Len(p) /\ SubSeq(s, 1, Len(p)) = p

\* [f(x) for x in l]
RECURSIVE MapStrip(_)
MapStrip(l) == IF l = <<>> THEN <<>> ELSE <<Strip(Head(l))>> \o MapStrip(Tail(l))

NonEmpty(s) == s # <<>>

\* [p.strip() for p in text.split(';') if p.strip()]
StripSplit(text) == SelectSeq(MapStrip(Split(text, ";")), NonEmpty)

----------------------------------------------------------------------------
(* normalize_phone, imessage.py:699-710 *)

\* variant: the 10-digit test is made on the text, not on its digits
normalize_phone_RawLength(phone) ==
    LET digits == SelectSeq(phone, IsDigit)
    IN  IF Len(phone) = 10 THEN <<"1">> \o digits
        ELSE digits

normalize_phone(phone) ==
    LET digits == SelectSeq(phone, IsDigit)
    IN  IF Len(digits) = 10 THEN <<"1">> \o digits
        ELSE IF Len(digits) = 11 /\ digits[1] = "1" THEN digits
        ELSE digits

----------------------------------------------------------------------------
(* The Contacts application: the people the generated scripts enumerate *)

PhA == <<"2", "3", "4", "5", "6", "7", "8", "9", "0", "1">>
PhB == <<"1", " ", "(", "2", "3", "4", ")", " ", "5", "6", "7", "-", "8", "9", "0", "1">>
PhC == <<"5", "5", "5", "1", "2", "3", "4">>
PhD == <<"2", "2", "3", "4", "5", "6", "7", "8", "9", "0", "1">>
PhE == <<"n", "/", "a">>

Entry(l, v) == [label |-> l, value |-> v]
Mail == Entry(<<"w">>, <<"a", "@", "b">>)

People == {
    [name |-> <<"A">>,      phones |-> <<Entry(<<"h">>, PhA)>>,                    emails |-> <<>>],
    [name |-> <<"B">>,      phones |-> <<Entry(<<"m">>, PhB)>>,                    emails |-> <<Mail>>],
    [name |-> <<"A">>,      phones |-> <<Entry(<<"m">>, PhC), Entry(<<"w">>, PhD)>>, emails |-> <<>>],
    [name |-> <<"B">>,      phones |-> <<>>,                                       emails |-> <<Mail>>],
    [name |-> <<"C", " ">>, phones |-> <<Entry(<<"o">>, PhE), Entry(<<"h">>, PhA)>>, emails |-> <<>>] }

Books == UNION {[1..n -> People] : n \in 0..MaxPeople}

----------------------------------------------------------------------------
(* run_applescript, imessage.py:809-834 *)

NOT_AUTHORIZED == "Not authorized to send Apple events"
PERMISSION_DENIED == "Permission denied"

\* what subprocess.run can do
Exit(rc, out, err) == [kind |-> "exit", returncode |-> rc, stdout |-> out, stderr |-> err]
TimeoutExpired == [kind |-> "timeout", returncode |-> 0, stdout |-> <<>>, stderr |-> <<>>]
\* an OSError of subprocess.run (its text is kept in the stderr field)
OSError == [kind |-> "oserror", returncode |-> 0, stdout |-> <<>>,
            stderr |-> <<"No such file or directory: 'osascript'">>]

StderrTexts == { <<"execution error: ", NOT_AUTHORIZED, " to Contacts. (-1743)">>,
                 <<"execution error: Contacts got an error: Application isn't running. (-600)">> }

\* osascript prints the script's result followed by a newline
ExtOutcomes(scriptResult) ==
    {Exit(0, scriptResult \o <<"\n">>, <<>>)}
        \cup {Exit(1, <<>>, e) : e \in StderrTexts}
        \cup {TimeoutExpired, OSError}

Return(v) == [raised |-> FALSE, value |-> v, msg |-> <<>>]
Raise(m)  == [raised |-> TRUE,  value |-> <<>>, msg |-> m]

\* "x" in str(e), on a message kept as a sequence of fragments
Contains(msg, frag) == \E i \in 1..Len(msg) : msg[i] = frag

TimeoutText(timeout) == CASE timeout = 5 -> "5" [] timeout = 30 -> "30" [] timeout = 60 -> "60"

PermissionMessage == <<PERMISSION_DENIED, ": Please grant Contacts access.",
                       "1. Open System Settings > Privacy & Security > Automation",
                       "2. Find your terminal app (Terminal/iTerm/VS Code) in the list",
                       "3. Enable the checkbox next to 'Contacts'",
                       "4. Restart your terminal and try again">>

\* the handler of line 831: except Exception as e
ExceptException(m) ==
    IF Contains(m, PERMISSION_DENIED) THEN Raise(m)
    ELSE Raise(<<"Failed to run AppleScript: ">> \o m)

\* variant: the timeout is re-raised through the handler of line 831
run_applescript_TimeoutWrapped(out, timeout) ==
    IF out.kind = "timeout"
    THEN ExceptException(<<"AppleScript execution timed out after ", TimeoutText(timeout), " seconds">>)
    ELSE IF out.kind = "oserror" THEN ExceptException(out.stderr)
    ELSE IF out.returncode # 0
         THEN IF Contains(out.stderr, NOT_AUTHORIZED)
              THEN ExceptException(PermissionMessage)
              ELSE ExceptException(<<"AppleScript error: ">> \o out.stderr)
         ELSE Return(Strip(out.stdout))

run_applescript(out, timeout) ==
    IF out.kind = "timeout"
    THEN Raise(<<"AppleScript execution timed out after ", TimeoutText(timeout), " seconds">>)
    ELSE IF out.kind = "oserror" THEN ExceptException(out.stderr)
    ELSE IF out.returncode # 0
         THEN IF Contains(out.stderr, NOT_AUTHORIZED)
              THEN ExceptException(PermissionMessage)
              ELSE ExceptException(<<"AppleScript error: ">> \o out.stderr)
         ELSE Return(Strip(out.stdout))

----------------------------------------------------------------------------
(* load_contact_cache, imessage.py:713-806 *)

RECURSIVE Values(_)
Values(entries) == IF entries = <<>> THEN <<>>
                   ELSE <<Head(entries).value>> \o Values(Tail(entries))

\* the script of lines 723-772: one line name|phone;phone per person with a phone
RECURSIVE load_contact_cache_lines(_)
load_contact_cache_lines(people) ==
    IF people = <<>> THEN <<>>
    ELSE LET p == Head(people)
             personPhones == SelectSeq(Values(p.phones), NonEmpty)
         IN  (IF Len(personPhones) > 0
              THEN <<p.name \o <<"|">> \o Join(personPhones, <<";">>)>>
              ELSE <<>>) \o load_contact_cache_lines(Tail(people))

load_contact_cache_script(people) == Join(load_contact_cache_lines(people), <<"\n">>)

CacheStore(k, v)  == [dict |-> "CONTACT_CACHE", key |-> k, val |-> v]
LookupStore(k, v) == [dict |-> "CONTACT_PHONE_LOOKUP", key |-> k, val |-> v]

\* variant: the key without country code is stored for 10-digit phones only
RECURSIVE PhoneStores_BareOnlyWhenPromoted(_, _)
PhoneStores_BareOnlyWhenPromoted(phones, name) ==
    IF phones = <<>> THEN <<>>
    ELSE LET normalized == normalize_phone(Head(phones))
         IN  (IF normalized # <<>>
              THEN <<LookupStore(normalized, name)>> \o
                   (IF Head(normalized) = "1" /\ Len(normalized) = 11
                       /\ Len(SelectSeq(Head(phones), IsDigit)) = 10
                    THEN <<LookupStore(Tail(normalized), name)>> ELSE <<>>)
              ELSE <<>>) \o PhoneStores_BareOnlyWhenPromoted(Tail(phones), name)

\* lines 792-799: the stores for the phones of one contact
RECURSIVE PhoneStores(_, _)
PhoneStores(phones, name) ==
    IF phones = <<>> THEN <<>>
    ELSE LET normalized == normalize_phone(Head(phones))
         IN  (IF normalized # <<>>
              THEN <<LookupStore(normalized, name)>> \o
                   (IF Head(normalized) = "1" /\ Len(normalized) = 11
                    THEN <<LookupStore(Tail(normalized), name)>> ELSE <<>>)
              ELSE <<>>) \o PhoneStores(Tail(phones), name)

\* lines 782-799: the stores of the parse loop, in program order
RECURSIVE LineStores(_)
LineStores(lines) ==
    IF lines = <<>> THEN <<>>
    ELSE LET line == Head(lines)
             parts == Split(line, "|")
         IN  (IF (\E i \in 1..Len(line) : line[i] = "|") /\ Len(parts) >= 2
              THEN LET name == Strip(parts[1])
                       phones == StripSplit(parts[2])
                   IN  <<CacheStore(name, phones)>> \o PhoneStores(phones, name)
              ELSE <<>>) \o LineStores(Tail(lines))

\* lines 780-781
Stores(text) == IF text # <<>> THEN LineStores(Split(Strip(text), "\n")) ELSE <<>>

Others(t) == Threads \ {t}

\* variant: the check also holds back a caller while another one is loading
Enter_Locked(t) ==
    /\ pc[t] = "idle"
    /\ inv[t] < MaxInvocations
    /\ inv' = [inv EXCEPT ![t] = @ + 1]
    /\ IF CONTACT_CACHE # None \/ (\E u \in Others(t) : pc[u] # "idle")
       THEN /\ ret' = [ret EXCEPT ![t] = "cached"]
            /\ pc' = pc
       ELSE /\ ret' = [ret EXCEPT ![t] = "running"]
            /\ pc' = [pc EXCEPT ![t] = "call"]
    /\ UNCHANGED <<book, CONTACT_CACHE, CONTACT_PHONE_LOOKUP, ext, pos, calls, populated, call, result, store, conns>>

\* line 717
Enter(t) ==
    /\ pc[t] = "idle"
    /\ inv[t] < MaxInvocations
    /\ inv' = [inv EXCEPT ![t] = @ + 1]
    /\ IF CONTACT_CACHE # None
       THEN /\ ret' = [ret EXCEPT ![t] = "cached"]
            /\ pc' = pc
       ELSE /\ ret' = [ret EXCEPT ![t] = "running"]
            /\ pc' = [pc EXCEPT ![t] = "call"]
    /\ UNCHANGED <<book, CONTACT_CACHE, CONTACT_PHONE_LOOKUP, ext, pos, calls, populated, call, result, store, conns>>

\* line 775: the external enumeration is started
Issue(t) ==
    /\ pc[t] = "call"
    /\ pc' = [pc EXCEPT ![t] = "wait"]
    /\ calls' = calls + 1
    /\ UNCHANGED <<book, CONTACT_CACHE, CONTACT_PHONE_LOOKUP, ext, pos, ret, inv, populated, call, result, store, conns>>

\* line 775: run_applescript(script, timeout=60)
load_contact_cache_call(out) == run_applescript(out, 60)

\* variant: a timeout is not caught by the handler of line 803
Complete_TimeoutEscapes(t) ==
    /\ pc[t] = "wait"
    /\ \E out \in ExtOutcomes(load_contact_cache_script(book)) :
          LET r == load_contact_cache_call(out)
          IN  IF out.kind = "timeout"
              THEN /\ pc' = [pc EXCEPT ![t] = "idle"]
                   /\ ret' = [ret EXCEPT ![t] = "raised"]
                   /\ ext' = ext
              ELSE /\ ext' = [ext EXCEPT ![t] = r]
                   /\ pc' = [pc EXCEPT ![t] = IF r.raised THEN "l805" ELSE "l777"]
                   /\ ret' = ret
    /\ UNCHANGED <<book, CONTACT_CACHE, CONTACT_PHONE_LOOKUP, pos, inv, calls, populated, call, result, store, conns>>

\* line 775: the external enumeration ends (result, non-zero exit, timeout, OS error)
Complete(t) ==
    /\ pc[t] = "wait"
    /\ \E out \in ExtOutcomes(load_contact_cache_script(book)) :
          LET r == load_contact_cache_call(out)
          IN  /\ ext' = [ext EXCEPT ![t] = r]
              /\ pc' = [pc EXCEPT ![t] = IF r.raised THEN "l805" ELSE "l777"]
    /\ UNCHANGED <<book, CONTACT_CACHE, CONTACT_PHONE_LOOKUP, pos, ret, inv, calls, populated, call, result, store, conns>>

L777(t) ==
    /\ pc[t] = "l777"
    /\ CONTACT_CACHE' = Some(EmptyDict)
    /\ pc' = [pc EXCEPT ![t] = "l778"]
    /\ UNCHANGED <<book, CONTACT_PHONE_LOOKUP, ext, pos, ret, inv, calls, populated, call, result, store, conns>>

L778(t) ==
    /\ pc[t] = "l778"
    /\ CONTACT_PHONE_LOOKUP' = Some(EmptyDict)
    /\ pc' = [pc EXCEPT ![t] = "loop"]
    /\ UNCHANGED <<book, CONTACT_CACHE, ext, pos, ret, inv, calls, populated, call, result, store, conns>>

\* lines 789, 795, 799: one store into the dict the global names at that moment
Store(t) ==
    /\ pc[t] = "loop"
    /\ pos[t] < Len(Stores(ext[t].value))
    /\ LET s == Stores(ext[t].value)[pos[t] + 1]
       IN  IF s.dict = "CONTACT_CACHE"
           THEN /\ CONTACT_CACHE' = Some(DictPut(Val(CONTACT_CACHE), s.key, s.val))
                /\ UNCHANGED CONTACT_PHONE_LOOKUP
           ELSE /\ CONTACT_PHONE_LOOKUP' = Some(DictPut(Val(CONTACT_PHONE_LOOKUP), s.key, s.val))
                /\ UNCHANGED CONTACT_CACHE
    /\ pos' = [pos EXCEPT ![t] = @ + 1]
    /\ UNCHANGED <<book, pc, ext, ret, inv, calls, populated, call, result, store, conns>>

NoExt == Return(<<>>)

\* line 801 and the return that follows it
L801(t) ==
    /\ pc[t] = "loop"
    /\ pos[t] = Len(Stores(ext[t].value))
    /\ pc' = [pc EXCEPT ![t] = "idle"]
    /\ ret' = [ret EXCEPT ![t] = "loaded"]
    /\ ext' = [ext EXCEPT ![t] = NoExt]
    /\ pos' = [pos EXCEPT ![t] = 0]
    /\ populated' = TRUE
    /\ UNCHANGED <<book, CONTACT_CACHE, CONTACT_PHONE_LOOKUP, inv, calls, call, result, store, conns>>

\* variant: the handler does not assign CONTACT_CACHE
L805_NoAssign(t) ==
    /\ pc[t] = "l805"
    /\ pc' = [pc EXCEPT ![t] = "l806"]
    /\ UNCHANGED <<book, CONTACT_CACHE, CONTACT_PHONE_LOOKUP, ext, pos, ret, inv, calls, populated, call, result, store, conns>>

L805(t) ==
    /\ pc[t] = "l805"
    /\ CONTACT_CACHE' = Some(EmptyDict)
    /\ pc' = [pc EXCEPT ![t] = "l806"]
    /\ UNCHANGED <<book, CONTACT_PHONE_LOOKUP, ext, pos, ret, inv, calls, populated, call, result, store, conns>>

\* line 806 and the return that follows it
L806(t) ==
    /\ pc[t] = "l806"
    /\ CONTACT_PHONE_LOOKUP' = Some(EmptyDict)
    /\ pc' = [pc EXCEPT ![t] = "idle"]
    /\ ret' = [ret EXCEPT ![t] = "failed"]
    /\ ext' = [ext EXCEPT ![t] = NoExt]
    /\ UNCHANGED <<book, CONTACT_CACHE, pos, inv, calls, populated, call, result, store, conns>>

load_contact_cache(t) ==
    \/ Enter(t)
    \/ Issue(t)
    \/ Complete(t)
    \/ L777(t)
    \/ L778(t)
    \/ Store(t)
    \/ L801(t)
    \/ L805(t)
    \/ L806(t)

NoCall == [op |-> "none"]
NoResult == [done |-> FALSE]

\* no database file, no connection
NoStore == [exists |-> FALSE, messages |-> <<>>, handles |-> <<>>, chats |-> {},
            participants |-> <<>>]
NoConns == [open |-> {}, opened |-> 0, executed |-> 0]
InitNoStore == store = NoStore /\ conns = NoConns

InitCache ==
    /\ CONTACT_CACHE = None
    /\ CONTACT_PHONE_LOOKUP = None
    /\ pc = [t \in Threads |-> "idle"]
    /\ ext = [t \in Threads |-> NoExt]
    /\ pos = [t \in Threads |-> 0]
    /\ ret = [t \in Threads |-> "none"]
    /\ inv = [t \in Threads |-> 0]
    /\ calls = 0
    /\ populated = FALSE

Init ==
    /\ book \in Books
    /\ InitCache
    /\ call = NoCall
    /\ result = NoResult
    /\ InitNoStore

\* callers on several threads: any interleaving of the steps
Next == \E t \in Threads : load_contact_cache(t)

Spec == Init /\ [][Next]_vars

\* sequential use: a caller starts only when no other invocation is in progress
EnterSeq(t) == (\A u \in Others(t) : pc[u] = "idle") /\ Enter(t)

NextSeq ==
    \E t \in Threads :
        \/ EnterSeq(t)
        \/ Issue(t)
        \/ Complete(t)
        \/ L777(t)
        \/ L778(t)
        \/ Store(t)
        \/ L801(t)
        \/ L805(t)
        \/ L806(t)

SpecSeq == Init /\ [][NextSeq]_vars

----------------------------------------------------------------------------
(* normalize_phone applied to every short text over a small alphabet *)

PhoneAlphabet == {"1", "2", "-"}
SpecExample == <<"(", "4", "6", "9", ")", " ", "8", "2", "6", "-", "4", "8", "1", "4">>
PhoneInputs == UNION {[1..n -> PhoneAlphabet] : n \in 0..MaxPhoneLen} \cup {SpecExample}

InitPhone ==
    /\ book = <<>>
    /\ InitCache
    /\ call \in {[op |-> "normalize_phone", phone |-> p] : p \in PhoneInputs}
    /\ result = NoResult
    /\ InitNoStore

NormalizePhone ==
    /\ call.op = "normalize_phone"
    /\ ~result.done
    /\ result' = [done |-> TRUE, value |-> normalize_phone(call.phone)]
    /\ UNCHANGED <<book, call>>
    /\ UNCHANGED cacheVars
    /\ UNCHANGED storeVars

NextPhone == NormalizePhone

SpecPhone == InitPhone /\ [][NextPhone]_vars

----------------------------------------------------------------------------
(* get_all_contacts, imessage.py:901-1068 *)

DigitChars == <<"0", "1", "2", "3", "4", "5", "6", "7", "8", "9">>

\* a number as the script (and Python) writes it
RECURSIVE NatToText(_)
NatToText(n) == IF n < 10 THEN <<DigitChars[n + 1]>>
                ELSE NatToText(n \div 10) \o <<DigitChars[(n % 10) + 1]>>

IntToText(n) == IF n < 0 THEN <<"-">> \o NatToText(0 - n) ELSE NatToText(n)

\* int(text): the texts it accepts, and their value
IsNatText(s) == s # <<>> /\ \A i \in 1..Len(s) : s[i] \in Digits
IsIntText(s) == LET t == Strip(s)
                IN  IsNatText(t) \/ (t # <<>> /\ Head(t) \in {"-", "+"} /\ IsNatText(Tail(t)))

DigitValue(c) == CHOOSE d \in 0..9 : DigitChars[d + 1] = c

RECURSIVE NatOfText(_)
NatOfText(s) == IF s = <<>> THEN 0
                ELSE 10 * NatOfText(SubSeq(s, 1, Len(s) - 1)) + DigitValue(s[Len(s)])

IntOfText(s) == LET t == Strip(s)
                IN  IF Head(t) = "-" THEN 0 - NatOfText(Tail(t))
                    ELSE IF Head(t) = "+" THEN NatOfText(Tail(t))
                    ELSE NatOfText(t)

\* lines 943, 961: label & ": " & value, for the entries with a value
RECURSIVE Labelled(_)
Labelled(entries) ==
    IF entries = <<>> THEN <<>>
    ELSE (IF Head(entries).value # <<>>
          THEN <<Head(entries).label \o <<":", " ">> \o Head(entries).value>>
          ELSE <<>>) \o Labelled(Tail(entries))

\* lines 972-990: name|phones|emails
ContactInfo(p) ==
    p.name \o <<"|">> \o Join(Labelled(p.phones), <<";">>) \o <<"|">> \o Join(Labelled(p.emails), <<";">>)

RECURSIVE ContactInfos(_, _, _)
ContactInfos(people, i, endIndex) ==
    IF i > endIndex THEN <<>>
    ELSE <<ContactInfo(people[i])>> \o ContactInfos(people, i + 1, endIndex)

\* the script of lines 912-1005, for offset >= 0
get_all_contacts_script(people, limit, offset) ==
    LET totalCount == Len(people)
        startIndex == offset + 1
        endIndex0  == offset + limit
    IN  IF startIndex > totalCount
        THEN <<"E", "M", "P", "T", "Y", "|", "0", "|">> \o IntToText(totalCount)
        ELSE LET endIndex == IF endIndex0 > totalCount THEN totalCount ELSE endIndex0
             IN  <<"D", "A", "T", "A", "|">> \o IntToText(endIndex - startIndex + 1)
                    \o <<"|">> \o IntToText(totalCount) \o <<"\n">>
                    \o Join(ContactInfos(people, startIndex, endIndex), <<"\n">>)

ValueError == <<"invalid literal for int() with base 10">>

\* variant: <= in place of < at line 1064
HasMore_Le(offset, limit, total_count) == (offset + limit) <= total_count

\* line 1064
HasMore(offset, limit, total_count) == (offset + limit) < total_count

\* variant: the total is read from the second field of the EMPTY line
EmptyTotalText_Field1(parts) == parts[2]

\* line 1012: parts[2]
EmptyTotalText(parts) == parts[3]

\* lines 1038-1055
RECURSIVE ParseContacts(_, _)
ParseContacts(contact_lines, contacts) ==
    IF contact_lines = <<>> THEN contacts
    ELSE LET line == Head(contact_lines)
             parts == Split(line, "|")
         IN  IF (\E i \in 1..Len(line) : line[i] = "|") /\ Len(parts) >= 2
             THEN LET name == Strip(parts[1])
                      phones == IF Len(parts) > 1 /\ parts[2] # <<>>
                                THEN StripSplit(parts[2]) ELSE <<>>
                      emails == IF Len(parts) > 2 /\ parts[3] # <<>>
                                THEN StripSplit(parts[3]) ELSE <<>>
                  IN  ParseContacts(Tail(contact_lines),
                         DictPut(contacts, name, [phones |-> phones, emails |-> emails]))
             ELSE ParseContacts(Tail(contact_lines), contacts)

Pagination(offset, limit, total, returned, has_more) ==
    [offset |-> offset, limit |-> limit, total |-> total, returned |-> returned,
     has_more |-> has_more]

\* lines 1007-1068, on the outcome of the external call
get_all_contacts(limit, offset, out) ==
    LET r == run_applescript(out, 30)
    IN  IF r.raised THEN [error |-> r.msg]
        ELSE IF StartsWith(r.value, <<"E", "M", "P", "T", "Y">>)
        THEN LET parts == Split(r.value, "|")
             IN  IF Len(parts) > 2 /\ ~IsIntText(EmptyTotalText(parts))
                 THEN [error |-> ValueError]
                 ELSE [contacts |-> EmptyDict,
                       pagination |-> Pagination(offset, limit,
                           IF Len(parts) > 2 THEN IntOfText(EmptyTotalText(parts)) ELSE 0,
                           0, FALSE)]
        ELSE LET lines == Split(Strip(r.value), "\n")
                 metadata_line == lines[1]
                 contact_lines == IF Len(lines) > 1 THEN Tail(lines) ELSE <<>>
                 meta_parts == Split(metadata_line, "|")
                 hasMeta == StartsWith(metadata_line, <<"D", "A", "T", "A", "|">>)
                               /\ Len(meta_parts) >= 3
             IN  IF hasMeta /\ ~(IsIntText(meta_parts[2]) /\ IsIntText(meta_parts[3]))
                 THEN [error |-> ValueError]
                 ELSE LET total_count == IF hasMeta THEN IntOfText(meta_parts[3]) ELSE 0
                          contacts == ParseContacts(contact_lines, EmptyDict)
                      IN  [contacts |-> contacts,
                           pagination |-> Pagination(offset, limit, total_count,
                               Cardinality(DOMAIN contacts),
                               HasMore(offset, limit, total_count))]

OffsetArgs == 0..MaxOffset
LimitArgs == (0 - 1)..MaxLimit

InitContacts ==
    /\ book \in Books
    /\ InitCache
    /\ call = NoCall
    /\ result = NoResult
    /\ InitNoStore

\* one call of the tool, with any outcome of its external call
GetAllContacts ==
    /\ \E limit \in LimitArgs, offset \in OffsetArgs :
          \E out \in ExtOutcomes(get_all_contacts_script(book, limit, offset)) :
              /\ call' = [op |-> "get_all_contacts", limit |-> limit, offset |-> offset,
                          exit0 |-> (out.kind = "exit" /\ out.returncode = 0)]
              /\ result' = [done |-> TRUE, value |-> get_all_contacts(limit, offset, out)]
    /\ UNCHANGED book
    /\ UNCHANGED cacheVars
    /\ UNCHANGED storeVars

NextContacts == GetAllContacts

SpecContacts == InitContacts /\ [][NextContacts]_vars

----------------------------------------------------------------------------
(* find_contact_by_name, imessage.py:1071-1238 *)

Quote == "\""
Backslash == "\\"

\* line 1085: .replace('"', '\\"')
RECURSIVE EscapeQuotes(_)
EscapeQuotes(s) ==
    IF s = <<>> THEN <<>>
    ELSE (IF Head(s) = Quote THEN <<Backslash, Quote>> ELSE <<Head(s)>>) \o EscapeQuotes(Tail(s))

\* the script compiler reading the body of a string literal whose opening
\* quote is consumed: a backslash takes the next character with it, a bare
\* quote closes the literal; rest is the text after the closing quote
RECURSIVE ReadLiteral(_, _)
ReadLiteral(text, value) ==
    IF text = <<>> THEN [closed |-> FALSE, value |-> value, rest |-> <<>>]
    ELSE IF Head(text) = Quote THEN [closed |-> TRUE, value |-> value, rest |-> Tail(text)]
    ELSE IF Head(text) = Backslash
         THEN IF Len(text) >= 2
              THEN ReadLiteral(Tail(Tail(text)), Append(value, text[2]))
              ELSE [closed |-> FALSE, value |-> value, rest |-> <<>>]
         ELSE ReadLiteral(Tail(text), Append(value, Head(text)))

\* line 1092: set searchText to "{search_name}"
SearchTextLiteral(search_name) == ReadLiteral(search_name \o <<Quote>>, <<>>)

\* text comparison of the script: case is ignored unless considered
Fold(c) == CASE c = "A" -> "a" [] c = "B" -> "b" [] c = "C" -> "c" [] c = "Z" -> "z"
             [] OTHER -> c

FoldText(s) == [i \in 1..Len(s) |-> Fold(s[i])]

\* a contains b, with case considered
RECURSIVE ContainsText(_, _)
ContainsText(a, b) ==
    IF Len(a) < Len(b) THEN FALSE
    ELSE IF SubSeq(a, 1, Len(b)) = b THEN TRUE
    ELSE ContainsText(Tail(a), b)

maxSearch == 100

\* line 1096: people whose name contains searchText (cs: the application considers case)
WhoseNameContains(people, searchText, cs) ==
    LET NameContains(p) == IF cs THEN ContainsText(p.name, searchText)
                           ELSE ContainsText(FoldText(p.name), FoldText(searchText))
    IN  SelectSeq(people, NameContains)

\* lines 1115-1119: ignoring case, either text contains the other
LenientMatch(p, searchText) ==
    \/ ContainsText(FoldText(p.name), FoldText(searchText))
    \/ ContainsText(FoldText(searchText), FoldText(p.name))

\* variant: the scan is not stopped at maxSearch
LenientSearch_NoCap(people, searchText, i, last) ==
    LET Matches(p) == LenientMatch(p, searchText)
    IN  SelectSeq(SubSeq(people, i, Len(people)), Matches)

\* lines 1110-1122: repeat with i from 1 to maxSearch
LenientSearch(people, searchText, i, last) ==
    LET Matches(p) == LenientMatch(p, searchText)
    IN  SelectSeq(SubSeq(people, i, last), Matches)

\* variant: the result limit is not applied
LimitResults_Off(matchingPeople, resultLimit) == matchingPeople

\* lines 1126-1129
LimitResults(matchingPeople, resultLimit) ==
    IF Len(matchingPeople) > resultLimit THEN SubSeq(matchingPeople, 1, resultLimit)
    ELSE matchingPeople

RECURSIVE MatchedContacts(_)
MatchedContacts(people) ==
    IF people = <<>> THEN <<>> ELSE <<ContactInfo(Head(people))>> \o MatchedContacts(Tail(people))

SyntaxError == <<"syntax error: Expected end of line but found unknown token. (-2741)">>

\* the script of lines 1088-1204 run by osascript, for limit >= 1
find_contact_by_name_script(people, search_name, limit, cs) ==
    LET lit == SearchTextLiteral(search_name)
    IN  IF ~lit.closed \/ lit.rest # <<>> THEN Exit(1, <<>>, SyntaxError)
        ELSE LET searchText == lit.value
                 primary == WhoseNameContains(people, searchText, cs)
                 matchingPeople ==
                     IF Len(primary) = 0
                     THEN LenientSearch(people, searchText, 1,
                              IF Len(people) < maxSearch THEN Len(people) ELSE maxSearch)
                     ELSE primary
             IN  Exit(0, Join(MatchedContacts(LimitResults(matchingPeople, limit)), <<"\n">>)
                            \o <<"\n">>, <<>>)

\* lines 1212-1230
RECURSIVE ParseMatches(_)
ParseMatches(lines) ==
    IF lines = <<>> THEN <<>>
    ELSE LET line == Head(lines)
             parts == Split(line, "|")
         IN  (IF (\E i \in 1..Len(line) : line[i] = "|") /\ Len(parts) >= 2
              THEN <<[name |-> Strip(parts[1]),
                      phones |-> IF Len(parts) > 1 /\ parts[2] # <<>>
                                 THEN StripSplit(parts[2]) ELSE <<>>,
                      emails |-> IF Len(parts) > 2 /\ parts[3] # <<>>
                                 THEN StripSplit(parts[3]) ELSE <<>>]>>
              ELSE <<>>) \o ParseMatches(Tail(lines))

\* variant: no match is reported as an error
NoMatches_AsError(name) ==
    [error |-> <<"No contacts found matching '">> \o name \o <<"'">>]

\* line 1235
NoMatches(name) ==
    [message |-> <<"No contacts found matching '">> \o name \o <<"'">>, matches |-> <<>>]

\* lines 1082-1083
NameMissing(name) == name = <<>> \/ Strip(name) = <<>>

\* lines 1206-1238, on the outcome of the external call
find_contact_by_name(name, limit, out) ==
    IF NameMissing(name) THEN [error |-> <<"Name parameter is required">>]
    ELSE LET r == run_applescript(out, 30)
         IN  IF r.raised THEN [error |-> r.msg]
             ELSE LET matches == IF r.value # <<>>
                                 THEN ParseMatches(Split(Strip(r.value), "\n")) ELSE <<>>
                  IN  IF matches # <<>>
                      THEN [matches |-> matches, count |-> Len(matches)]
                      ELSE NoMatches(name)

----------------------------------------------------------------------------
(* get_contacts_count, imessage.py:837-855 *)

\* the script of lines 840-845
get_contacts_count_script(people) == IntToText(Len(people))

CountPayload(count) ==
    [total_contacts |-> count,
     message |-> <<"You have ">> \o IntToText(count) \o <<" contacts in your Contacts app">>]

\* variant: int(result) is evaluated outside the try block
get_contacts_count_IntEscapes(out) ==
    LET r == run_applescript(out, 5)
    IN  IF r.raised THEN [error |-> r.msg]
        ELSE IF r.value = <<>> THEN CountPayload(0)
        ELSE IF ~IsIntText(r.value) THEN Raise(ValueError)
        ELSE CountPayload(IntOfText(r.value))

\* lines 847-855
get_contacts_count(out) ==
    LET r == run_applescript(out, 5)
    IN  IF r.raised THEN [error |-> r.msg]
        ELSE IF r.value = <<>> THEN CountPayload(0)
        ELSE IF ~IsIntText(r.value) THEN [error |-> ValueError]
        ELSE CountPayload(IntOfText(r.value))

----------------------------------------------------------------------------
(* check_contacts_permission, imessage.py:858-898 *)

\* the script of line 863
check_contacts_permission_script == <<"C", "o", "n", "t", "a", "c", "t", "s">>

\* "Not authorized" in error_msg: also inside the longer text of line 819
ContainsNotAuthorized(msg) ==
    \E i \in 1..Len(msg) : msg[i] \in {"Not authorized", NOT_AUTHORIZED}

Instructions == <<"To enable Contacts access:",
                  "1. Open System Settings (System Preferences on older macOS)",
                  "2. Go to Privacy & Security > Automation",
                  "3. Find your terminal application:",
                  "   - Terminal.app",
                  "   - iTerm.app",
                  "   - Visual Studio Code",
                  "   - Or whatever terminal you're using",
                  "4. Click the checkbox next to 'Contacts' to enable access",
                  "5. You may need to restart your terminal application",
                  "",
                  "Alternative method:",
                  "1. Open System Settings > Privacy & Security > Contacts",
                  "2. Click the '+' button",
                  "3. Add your terminal application",
                  "4. Restart the terminal">>

\* lines 861-898
check_contacts_permission(out) ==
    LET r == run_applescript(out, 30)
    IN  IF ~r.raised
        THEN [has_permission |-> TRUE,
              message |-> <<"Contacts access is granted. You can use all contact-related tools.">>]
        ELSE IF Contains(r.msg, PERMISSION_DENIED) \/ ContainsNotAuthorized(r.msg)
             THEN [has_permission |-> FALSE, message |-> r.msg, instructions |-> Instructions]
             ELSE [has_permission |-> FALSE,
                   message |-> <<"Unable to access Contacts: ">> \o r.msg]

----------------------------------------------------------------------------
(* The contact tools, one call each, with every outcome of the external call *)

Fillers(n) == [i \in 1..n |-> [name |-> <<"Z">>, phones |-> <<>>, emails |-> <<>>]]

\* short address books, and ones where the last of the first maxSearch people
\* is followed by more people
LongBooks == Books \cup {Fillers(maxSearch - 1) \o b : b \in [1..MaxPeople -> People]}

\* texts a successful call can print that the parsers do not expect
MalformedTexts == { <<"D", "A", "T", "A", "|", "x", "|", "y">>,
                    <<"E", "M", "P", "T", "Y", "|", "0", "|", "z">>,
                    <<"?">>,
                    <<>> }

\* other texts a failing script writes to stderr
OtherStderrTexts == { <<"execution error: cat: /private/var/db/x: ", PERMISSION_DENIED, " (1)">>,
                      <<"execution error: ", "Not authorized", " to access Contacts. (-1)">> }

\* subprocess.run cannot execute osascript (its text is kept in the stderr field)
PermissionError == [kind |-> "oserror", returncode |-> 0, stdout |-> <<>>,
                    stderr |-> <<"[Errno 13] ", PERMISSION_DENIED, ": 'osascript'">>]

Failures == {Exit(1, <<>>, e) : e \in StderrTexts \cup OtherStderrTexts}
                \cup {TimeoutExpired, OSError, PermissionError}
Malformed == {Exit(0, t \o <<"\n">>, <<>>) : t \in MalformedTexts}

\* every outcome of a call whose script prints scriptResult
ToolOutcomes(scriptResult) ==
    {Exit(0, scriptResult \o <<"\n">>, <<>>)} \cup Failures \cup Malformed

\* no external call was made
NoOutcome == [kind |-> "none", returncode |-> 0, stdout |-> <<>>, stderr |-> <<>>]

NameArgs == { <<"A">>, <<"a">>, <<"A", "B">>, <<"C">>, <<" ", "B", " ">>, <<"x">>,
              <<>>, <<" ">>, <<"A", Quote>>, <<"A", Backslash>>, <<Backslash, Quote, "x">> }
FindLimitArgs == 1..MaxLimit
Budgets == {5, 30, 60}

InitTools ==
    /\ book \in Books
    /\ InitCache
    /\ call = NoCall
    /\ result = NoResult
    /\ InitNoStore

\* the value a finished call hands back
Done(v) == [done |-> TRUE, value |-> v]

RunApplescript ==
    /\ ~result.done
    /\ \E out \in ToolOutcomes(<<"o", "k", " ">>), timeout \in Budgets :
           /\ call' = [op |-> "run_applescript", out |-> out, timeout |-> timeout]
           /\ result' = Done(run_applescript(out, timeout))
    /\ UNCHANGED <<book, cacheVars, storeVars>>

LoadContactCacheCall ==
    /\ ~result.done
    /\ \E out \in ToolOutcomes(load_contact_cache_script(book)) :
           /\ call' = [op |-> "load_contact_cache", out |-> out]
           /\ result' = Done(load_contact_cache_call(out))
    /\ UNCHANGED <<book, cacheVars, storeVars>>

GetContactsCount ==
    /\ ~result.done
    /\ \E out \in ToolOutcomes(get_contacts_count_script(book)) :
           /\ call' = [op |-> "get_contacts_count", out |-> out]
           /\ result' = Done(get_contacts_count(out))
    /\ UNCHANGED <<book, cacheVars, storeVars>>

CheckContactsPermission ==
    /\ ~result.done
    /\ \E out \in ToolOutcomes(check_contacts_permission_script) :
           /\ call' = [op |-> "check_contacts_permission", out |-> out]
           /\ result' = Done(check_contacts_permission(out))
    /\ UNCHANGED <<book, cacheVars, storeVars>>

GetAllContactsAny ==
    /\ ~result.done
    /\ \E limit \in LimitArgs, offset \in OffsetArgs :
           \E out \in ToolOutcomes(get_all_contacts_script(book, limit, offset)) :
               /\ call' = [op |-> "get_all_contacts", limit |-> limit, offset |-> offset,
                           out |-> out]
               /\ result' = Done(get_all_contacts(limit, offset, out))
    /\ UNCHANGED <<book, cacheVars, storeVars>>

FindCallOf(name, limit, out, script, cs) ==
    [op |-> "find_contact_by_name", name |-> name, limit |-> limit,
     out |-> out, script |-> script, cs |-> cs]

\* the external call runs the script against the address book
FindContactByNameScript ==
    /\ ~result.done
    /\ \E name \in NameArgs, limit \in FindLimitArgs, cs \in BOOLEAN :
           LET out == find_contact_by_name_script(book, EscapeQuotes(Strip(name)), limit, cs)
           IN  /\ ~NameMissing(name)
               /\ call' = FindCallOf(name, limit, out, TRUE, cs)
               /\ result' = Done(find_contact_by_name(name, limit, out))
    /\ UNCHANGED <<book, cacheVars, storeVars>>

\* the name is missing (no external call), or the call fails or prints something else
FindContactByNameOther ==
    /\ ~result.done
    /\ \E name \in NameArgs, limit \in FindLimitArgs :
           \E out \in IF NameMissing(name) THEN {NoOutcome} ELSE Failures \cup Malformed :
               /\ call' = FindCallOf(name, limit, out, FALSE, FALSE)
               /\ result' = Done(find_contact_by_name(name, limit, out))
    /\ UNCHANGED <<book, cacheVars, storeVars>>

NextTools ==
    \/ RunApplescript
    \/ LoadContactCacheCall
    \/ GetContactsCount
    \/ CheckContactsPermission
    \/ GetAllContactsAny
    \/ FindContactByNameScript
    \/ FindContactByNameOther

SpecTools == InitTools /\ [][NextTools]_vars

\* find_contact_by_name against address books longer than the lenient search examines
InitFind ==
    /\ book \in LongBooks
    /\ InitCache
    /\ call = NoCall
    /\ result = NoResult
    /\ InitNoStore

NextFind == FindContactByNameScript

SpecFind == InitFind /\ [][NextFind]_vars

----------------------------------------------------------------------------
(* The message store and get_db_connection, imessage.py:58-66 *)

IMESSAGES_DB_PATH == "~/Library/Messages/chat.db"

\* message.date counts nanoseconds from 2001-01-01
Second == 1000000000
AppleEpoch == 978307200

\* three dates, the first two within one second
Dates == <<1000000000, 1000000005, 2000000000>>

\* a row of message with the chat it is joined to (handle_id 0: NULL)
Message(date, chat, text, is_from_me, handle_id) ==
    [date |-> date, chat |-> chat, text |-> text, attributedBody |-> None,
     is_from_me |-> is_from_me, handle_id |-> handle_id]

MessageKinds == { Message(Dates[1], 1, Some(<<"a">>), 0, 1),
                  Message(Dates[2], 1, Some(<<"b">>), 1, 0),
                  Message(Dates[3], 1, None, 0, 1),
                  Message(Dates[2], 2, Some(<<"c">>), 0, 2) }

\* handle.id by ROWID
StoreHandles == << <<"+", "1", "2", "3", "4", "5", "6", "7", "8", "9", "0", "1">>,
                   <<"b", "@", "x">> >>

\* a message's ROWID is its position; participants is chat_handle_join
ChatStoreOf(messages, participants) ==
    [exists |-> TRUE, messages |-> messages, handles |-> StoreHandles, chats |-> {1, 2},
     participants |-> participants]

\* two chats with one participant each
StoreOf(messages) == ChatStoreOf(messages, [c \in {1, 2} |-> {c}])

MessageStores == {StoreOf(m) : m \in UNION {[1..n -> MessageKinds] : n \in 0..MaxMessages}}

FileNotFoundError == <<"FileNotFoundError", "iMessages database not found at ", IMESSAGES_DB_PATH>>
OperationalError(text) == <<"sqlite3.OperationalError", text>>
DatabaseError == <<"sqlite3.DatabaseError", "file is not a database">>

\* the value of datetime(date/1000000000 + strftime('%s', '2001-01-01'), 'unixepoch',
\* 'localtime'), kept as the number of seconds the text stands for
DateTime(date) == (date \div Second) + AppleEpoch

\* LEFT JOIN handle ON message.handle_id = handle.ROWID
HandleId(s, m) ==
    IF m.handle_id \in 1..Len(s.handles) THEN Some(s.handles[m.handle_id]) ELSE None

\* every order of the rows that ORDER BY date allows; rows of equal date come
\* in any order unless ROWID breaks the tie
Orderings(s, rows, desc, tiebreak) ==
    LET n == Cardinality(rows)
        Before(i, j) ==
            LET a == IF desc THEN s.messages[j].date ELSE s.messages[i].date
                b == IF desc THEN s.messages[i].date ELSE s.messages[j].date
            IN  \/ a < b
                \/ a = b /\ (tiebreak = "none" \/ (tiebreak = "ASC" /\ i < j)
                                               \/ (tiebreak = "DESC" /\ i > j))
    IN  {p \in [1..n -> rows] :
            /\ \A j, k \in 1..n : j # k => p[j] # p[k]
            /\ \A j, k \in 1..n : j < k => Before(p[j], p[k])}

\* variant: OFFSET is ignored
LimitOffset_NoOffset(rows, limit, offset) ==
    SubSeq(rows, 1, IF limit < 0 \/ limit > Len(rows) THEN Len(rows) ELSE limit)

\* LIMIT ? OFFSET ?: a negative limit is no limit, a negative offset is 0
LimitOffset(rows, limit, offset) ==
    LET skip == IF offset < 0 THEN 0 ELSE offset
        last == IF limit < 0 \/ skip + limit > Len(rows) THEN Len(rows) ELSE skip + limit
    IN  SubSeq(rows, skip + 1, last)

----------------------------------------------------------------------------
(* The queries of the store tools, imessage.py:69-100 and 208-316 *)

\* lines 75-98
get_recent_messages_query(s, limit) ==
    LET rows == {i \in 1..Len(s.messages) : s.messages[i].text # None}
        Row(i) == [guid |-> i, text |-> Val(s.messages[i].text),
                   is_from_me |-> s.messages[i].is_from_me # 0,
                   date |-> DateTime(s.messages[i].date),
                   contact |-> HandleId(s, s.messages[i])]
    IN  {Return([k \in 1..Len(LimitOffset(p, limit, 0)) |-> Row(p[k])]) :
            p \in Orderings(s, rows, TRUE, "none")}

\* the four count queries of lines 216, 220, 224 and 228, by their position
StatsCount(s, k) ==
    LET M == 1..Len(s.messages)
    IN  CASE k = 1 -> Cardinality({i \in M : s.messages[i].text # None})
          [] k = 2 -> Cardinality({i \in M : s.messages[i].is_from_me = 1
                                                /\ s.messages[i].text # None})
          [] k = 3 -> Cardinality({s.messages[i].handle_id : i \in M} \ {0})
          [] k = 4 -> Cardinality(s.chats)

\* lines 231-237
StatsRecord(total_messages, sent_messages, total_contacts, total_chats) ==
    [total_messages |-> total_messages,
     sent_messages |-> sent_messages,
     received_messages |-> total_messages - sent_messages,
     total_contacts |-> total_contacts,
     total_conversations |-> total_chats]

\* lines 214-237, the four queries reading the same content
get_message_stats_query(s) ==
    {Return(StatsRecord(StatsCount(s, 1), StatsCount(s, 2), StatsCount(s, 3), StatsCount(s, 4)))}

\* the row of lines 249-255 and 297-303
MessageRow(s, i) ==
    [id |-> i, text |-> s.messages[i].text, attributedBody |-> s.messages[i].attributedBody,
     date |-> DateTime(s.messages[i].date), is_from_me |-> s.messages[i].is_from_me,
     sender_id |-> HandleId(s, s.messages[i]), sender_name |-> HandleId(s, s.messages[i])]

\* JOIN chat_message_join ... JOIN chat
Joined(s, i) == s.messages[i].chat \in s.chats

\* lines 247-267
get_message_query(s, message_id) ==
    IF message_id \in 1..Len(s.messages) /\ Joined(s, message_id)
    THEN {Return(Some(MessageRow(s, message_id)))}
    ELSE {Return(None)}

\* lines 277-285
get_message_count_query(s, chat_id) ==
    {Return(Cardinality({i \in 1..Len(s.messages) : s.messages[i].chat = chat_id}))}

\* chat.chat_identifier and chat.display_name by ROWID
ChatIdentifier(c) == <<"c", "h", "a", "t">> \o IntToText(c)
DisplayName(c) == IF c = 2 THEN Some(<<"G">>) ELSE None

\* lines 177-203. The joins give one row for every message of the chat and every
\* participant of the chat (one row with a NULL handle when it has none) and
\* COUNT counts these rows; h.ROWID is a bare column, taken from a row that holds
\* MAX(m.date); the subquery takes the latest text among the messages of that
\* handle, whatever their chat
get_conversation_list_query(s, limit) ==
    LET M == 1..Len(s.messages)
        Msgs(c) == {i \in M : s.messages[i].chat = c}
        listed == {c \in s.chats : Msgs(c) # {}}
        Last(c) == CHOOSE d \in {s.messages[i].date : i \in Msgs(c)} :
                       \A i \in Msgs(c) : s.messages[i].date <= d
        Hs(c) == IF s.participants[c] = {} THEN {0} ELSE s.participants[c]
        Of(h) == {i \in M : h # 0 /\ s.messages[i].handle_id = h}
        LastTexts(h) ==
            IF Of(h) = {} THEN {None}
            ELSE {s.messages[i].text :
                     i \in {j \in Of(h) : \A k \in Of(h) : s.messages[k].date <= s.messages[j].date}}
        Conv(c, t) ==
            [chat_id |-> ChatIdentifier(c),
             display_name |-> IF DisplayName(c) \in {None, Some(<<>>)} THEN ChatIdentifier(c)
                              ELSE Val(DisplayName(c)),
             last_message_date |-> IF Last(c) = 0 THEN None ELSE Some(DateTime(Last(c))),
             message_count |-> Cardinality(Msgs(c)) * Cardinality(Hs(c)),
             last_message |-> t]
        n == Cardinality(listed)
        orders == {p \in [1..n -> listed] :
                      /\ \A j, k \in 1..n : j # k => p[j] # p[k]
                      /\ \A j, k \in 1..n : j < k => Last(p[j]) >= Last(p[k])}
        texts == [listed -> UNION {LastTexts(h) : h \in UNION {Hs(c) : c \in listed}}]
    IN  {Return(LimitOffset([k \in 1..n |-> Conv(p[k], t[p[k]])], limit, 0)) :
            p \in orders,
            t \in {f \in texts : \A c \in listed : \E h \in Hs(c) : f[c] \in LastTexts(h)}}

\* ORDER BY message.date {order}: what the text after the column name means
OrderClause(order) ==
    CASE order = "ASC" -> [ok |-> TRUE, desc |-> FALSE, tiebreak |-> "none"]
      [] order = "DESC" -> [ok |-> TRUE, desc |-> TRUE, tiebreak |-> "none"]
      [] order = "DESC, message.ROWID DESC" -> [ok |-> TRUE, desc |-> TRUE, tiebreak |-> "DESC"]
      [] OTHER -> [ok |-> FALSE, desc |-> FALSE, tiebreak |-> "none"]

\* lines 296-313: the query text with its interpolated token, and the bound parameters
get_messages_sql(chat_id, limit, offset, order) ==
    [order_by |-> <<"ORDER BY message.date ", order>>, parameters |-> <<chat_id, limit, offset>>]

\* lines 295-314
get_messages_query(s, chat_id, limit, offset, order) ==
    LET clause == OrderClause(order)
        rows == {i \in 1..Len(s.messages) : s.messages[i].chat = chat_id /\ Joined(s, i)}
    IN  IF ~clause.ok THEN {Raise(OperationalError(<<"near \"", order, "\": syntax error">>))}
        ELSE {Return([k \in 1..Len(LimitOffset(p, limit, offset)) |->
                          MessageRow(s, LimitOffset(p, limit, offset)[k])]) :
                 p \in Orderings(s, rows, clause.desc, clause.tiebreak)}

----------------------------------------------------------------------------
(* The date argument of the timestamp-filtering tools, imessage.py:385-392 *)
(* (the same lines at 424-431, 463-470, 501-508 and 528-535)               *)

\* a date argument: an int, or a str
IntArg(n) == [isstr |-> FALSE, int |-> n, text |-> <<>>]
StrArg(t) == [isstr |-> TRUE, int |-> 0, text |-> t]

AllDigits(t) == \A i \in 1..Len(t) : IsDigit(t[i])

\* int(date), line 392: an int is returned as it is; a str is stripped and read
\* as an optional sign followed by digits
python_int(date) ==
    IF ~date.isstr THEN Return(date.int)
    ELSE IF IsIntText(date.text) THEN Return(IntOfText(date.text))
    ELSE Raise(ValueError)

IsoFormatError == <<"Invalid isoformat string">>

\* date.replace('Z', '+00:00'), line 389
RECURSIVE ReplaceZ(_)
ReplaceZ(t) ==
    IF t = <<>> THEN <<>>
    ELSE (IF Head(t) = "Z" THEN <<"+", "0", "0", ":", "0", "0">> ELSE <<Head(t)>>)
             \o ReplaceZ(Tail(t))

IsLeap(y) == y % 4 = 0 /\ (y % 100 # 0 \/ y % 400 = 0)
DaysInMonth(y, m) ==
    IF m = 2 THEN (IF IsLeap(y) THEN 29 ELSE 28)
    ELSE IF m \in {4, 6, 9, 11} THEN 30 ELSE 31

\* days from 1970-01-01 to the civil date y-m-d
DaysFromCivil(y, m, d) ==
    LET yy == IF m <= 2 THEN y - 1 ELSE y
        era == yy \div 400
        yoe == yy - era * 400
        mp == IF m > 2 THEN m - 3 ELSE m + 9
        doy == (153 * mp + 2) \div 5 + d - 1
        doe == yoe * 365 + yoe \div 4 - yoe \div 100 + doy
    IN  era * 146097 + doe - 719468

\* datetime.fromisoformat(text).timestamp(), lines 389-390, for the texts
\* YYYY-MM-DD, YYYY-MM-DDTHH:MM:SS and YYYY-MM-DDTHH:MM:SS+HH:MM (whole seconds);
\* a text without offset is read in the zone of the host, taken to be UTC
fromisoformat_timestamp(t) ==
    LET Num(a, b) == NatOfText(SubSeq(t, a, b))
        Dig(a, b) == AllDigits(SubSeq(t, a, b))
        dateOk == /\ Len(t) >= 10 /\ Dig(1, 4) /\ t[5] = "-" /\ Dig(6, 7) /\ t[8] = "-"
                  /\ Dig(9, 10)
                  /\ Num(1, 4) >= 1 /\ Num(6, 7) \in 1..12
                  /\ Num(9, 10) \in 1..DaysInMonth(Num(1, 4), Num(6, 7))
        timeOk == /\ Len(t) >= 19 /\ Dig(12, 13) /\ t[14] = ":" /\ Dig(15, 16)
                  /\ t[17] = ":" /\ Dig(18, 19)
                  /\ Num(12, 13) < 24 /\ Num(15, 16) < 60 /\ Num(18, 19) < 60
        zoneOk == /\ Len(t) = 25 /\ t[20] \in {"+", "-"} /\ Dig(21, 22) /\ t[23] = ":"
                  /\ Dig(24, 25) /\ Num(21, 22) < 24 /\ Num(24, 25) < 60
        ok == dateOk /\ (Len(t) = 10 \/ (timeOk /\ (Len(t) = 19 \/ zoneOk)))
        time == IF Len(t) = 10 THEN 0
                ELSE Num(12, 13) * 3600 + Num(15, 16) * 60 + Num(18, 19)
        utcoffset == IF Len(t) # 25 THEN 0
                     ELSE (IF t[20] = "-" THEN 0 - 1 ELSE 1)
                              * (Num(21, 22) * 3600 + Num(24, 25) * 60)
    IN  IF ok
        THEN Return(DaysFromCivil(Num(1, 4), Num(6, 7), Num(9, 10)) * 86400 + time - utcoffset)
        ELSE Raise(IsoFormatError)

\* lines 386-392: a str containing "-" is read as an ISO date, anything else by int()
apple_epoch(date) ==
    IF date.isstr /\ \E i \in 1..Len(date.text) : date.text[i] = "-"
    THEN LET ts == fromisoformat_timestamp(ReplaceZ(date.text))
         IN  IF ts.raised THEN ts ELSE Return((ts.value - AppleEpoch) * Second)
    ELSE python_int(date)

\* the rows of a chat, as get_messages selects them
ChatRows(s, chat_id) == {i \in 1..Len(s.messages) : s.messages[i].chat = chat_id /\ Joined(s, i)}

RowsOf(s, p) == [k \in 1..Len(p) |-> MessageRow(s, p[k])]

\* lines 394-413: message.date < ? ORDER BY message.date DESC LIMIT ?
get_messages_before_date_query(s, chat_id, date, limit) ==
    LET b == apple_epoch(date)
    IN  IF b.raised THEN {b}
        ELSE {Return(RowsOf(s, LimitOffset(p, limit, 0))) :
                 p \in Orderings(s, {i \in ChatRows(s, chat_id) : s.messages[i].date < b.value},
                                 TRUE, "none")}

\* lines 433-452: message.date > ? ORDER BY message.date ASC LIMIT ?
get_messages_after_date_query(s, chat_id, date, limit) ==
    LET b == apple_epoch(date)
    IN  IF b.raised THEN {b}
        ELSE {Return(RowsOf(s, LimitOffset(p, limit, 0))) :
                 p \in Orderings(s, {i \in ChatRows(s, chat_id) : s.messages[i].date > b.value},
                                 FALSE, "none")}

\* lines 472-490: message.date = ? ORDER BY message.ROWID ASC
get_messages_same_date_query(s, chat_id, date) ==
    LET b == apple_epoch(date)
    IN  IF b.raised THEN {b}
        ELSE {Return(RowsOf(s, p)) :
                 p \in Orderings(s, {i \in ChatRows(s, chat_id) : s.messages[i].date = b.value},
                                 FALSE, "ASC")}

\* WHERE message.is_from_me = 0 AND message.date >= ?
ReceivedSince(s, bound) ==
    {i \in 1..Len(s.messages) : s.messages[i].is_from_me = 0 /\ s.messages[i].date >= bound}

\* lines 510-517: COUNT(DISTINCT handle.id) does not count NULL
get_unique_senders_since_query(s, date) ==
    LET b == apple_epoch(date)
    IN  IF b.raised THEN {b}
        ELSE {Return(Cardinality(UNION {HandleId(s, s.messages[i]) : i \in ReceivedSince(s, b.value)}))}

\* lines 537-546: GROUP BY handle.id ORDER BY messages DESC; groups of equal count
\* come in any order
get_distinct_senders_since_query(s, date) ==
    LET b == apple_epoch(date)
        rows == ReceivedSince(s, b.value)
        senders == {HandleId(s, s.messages[i]) : i \in rows}
        Count(h) == Cardinality({i \in rows : HandleId(s, s.messages[i]) = h})
        n == Cardinality(senders)
    IN  IF b.raised THEN {b}
        ELSE {Return([k \in 1..n |-> [sender_id |-> p[k], messages |-> Count(p[k])]]) :
                 p \in {q \in [1..n -> senders] :
                           /\ \A j, k \in 1..n : j # k => q[j] # q[k]
                           /\ \A j, k \in 1..n : j < k => Count(q[j]) >= Count(q[k])}}

----------------------------------------------------------------------------
(* A store tool call: conn = get_db_connection(); try: ... finally: conn.close() *)

Chats == {1, 2, 3}
RowIds == 0..(MaxMessages + 1)
PageLimits == {0 - 1, 0, 1, 2}
PageOffsets == {0 - 1, 0, 1, 2}
Orders == {"ASC", "DESC", "NEWEST", "DESC, message.ROWID DESC"}

GetMessagesCalls ==
    {[op |-> "get_messages",
      args |-> [chat_id |-> c, limit |-> l, offset |-> o, order |-> d]] :
        c \in Chats \ {3}, l \in PageLimits, o \in PageOffsets, d \in Orders}

StoreCalls ==
    {[op |-> "get_recent_messages", args |-> [limit |-> l]] : l \in PageLimits}
        \cup {[op |-> "get_message_stats", args |-> [none |-> 0]]}
        \cup {[op |-> "get_message", args |-> [message_id |-> i]] : i \in RowIds}
        \cup {[op |-> "get_message_count", args |-> [chat_id |-> c]] : c \in Chats}
        \cup {c \in GetMessagesCalls : c.args.limit = 1 /\ c.args.offset = 0}

\* the number of cursor.execute calls of the tool
Executes(op) == IF op = "get_message_stats" THEN 4 ELSE 1

\* what the query of the call returns or raises
QueryOutcomes(s, c) ==
    CASE c.op = "get_recent_messages" -> get_recent_messages_query(s, c.args.limit)
      [] c.op = "get_message_stats" -> get_message_stats_query(s)
      [] c.op = "get_message" -> get_message_query(s, c.args.message_id)
      [] c.op = "get_message_count" -> get_message_count_query(s, c.args.chat_id)
      [] c.op = "get_messages" ->
             get_messages_query(s, c.args.chat_id, c.args.limit, c.args.offset, c.args.order)
      [] c.op = "get_conversation_list" -> get_conversation_list_query(s, c.args.limit)
      [] c.op = "get_messages_before_date" ->
             get_messages_before_date_query(s, c.args.chat_id, c.args.date, c.args.limit)
      [] c.op = "get_messages_after_date" ->
             get_messages_after_date_query(s, c.args.chat_id, c.args.date, c.args.limit)
      [] c.op = "get_messages_same_date" ->
             get_messages_same_date_query(s, c.args.chat_id, c.args.date)
      [] c.op = "get_unique_senders_since" -> get_unique_senders_since_query(s, c.args.date)
      [] c.op = "get_distinct_senders_since" -> get_distinct_senders_since_query(s, c.args.date)

DateTools == {"get_messages_before_date", "get_messages_after_date", "get_messages_same_date",
              "get_unique_senders_since", "get_distinct_senders_since"}

\* lines 412, 451, 489, 516, 545: the parameters bound to the query of a date tool
date_tool_sql(op, chat_id, bound, limit) ==
    CASE op = "get_messages_before_date" ->
             [order_by |-> <<"ORDER BY message.date ", "DESC">>,
              parameters |-> <<chat_id, bound, limit>>]
      [] op = "get_messages_after_date" ->
             [order_by |-> <<"ORDER BY message.date ", "ASC">>,
              parameters |-> <<chat_id, bound, limit>>]
      [] op = "get_messages_same_date" ->
             [order_by |-> <<"ORDER BY message.ROWID ", "ASC">>,
              parameters |-> <<chat_id, bound>>]
      [] op = "get_unique_senders_since" ->
             [order_by |-> <<"", "">>, parameters |-> <<bound>>]
      [] op = "get_distinct_senders_since" ->
             [order_by |-> <<"ORDER BY messages ", "DESC">>, parameters |-> <<bound>>]

\* the query text of the call and its parameters (only get_messages builds the
\* text from an argument); a date tool whose date is not converted runs no query
QueryText(c) ==
    IF c.op = "get_messages"
    THEN Some(get_messages_sql(c.args.chat_id, c.args.limit, c.args.offset, c.args.order))
    ELSE IF c.op \in DateTools
    THEN (IF apple_epoch(c.args.date).raised THEN None
          ELSE Some(date_tool_sql(c.op, c.args.chat_id, apple_epoch(c.args.date).value,
                                  c.args.limit)))
    ELSE None

\* a store tool is running or has just ended
InStoreCall == "pc" \in DOMAIN call

\* callers alternate between two marks, so that a handle tells which call opened it
Begun(c) ==
    [op |-> c.op, args |-> c.args, pc |-> "open",
     mark |-> IF "mark" \in DOMAIN call THEN call.mark ELSE 0,
     conn |-> None, used |-> None, sql |-> None, pending |-> None]

BeginStoreTool ==
    /\ call.op = "none"
    /\ \E c \in StoreCalls : call' = Begun(c)
    /\ conns' = [conns EXCEPT !.opened = 0, !.executed = 0]
    /\ UNCHANGED <<book, cacheVars, result, store>>

BeginGetMessages ==
    /\ call.op = "none"
    /\ \E c \in GetMessagesCalls : call' = Begun(c)
    /\ conns' = [conns EXCEPT !.opened = 0, !.executed = 0]
    /\ UNCHANGED <<book, cacheVars, result, store>>

\* variant: the file is not looked for before connecting
GetDbConnection_NoExistsCheck ==
    /\ InStoreCall /\ call.pc = "open"
    /\ LET h == [owner |-> call.mark, mode |-> "ro"]
       IN  /\ conns' = [conns EXCEPT !.open = @ \cup {h}, !.opened = @ + 1]
           /\ call' = [call EXCEPT !.pc = "execute", !.conn = Some(h)]
           /\ UNCHANGED result
    /\ UNCHANGED <<book, cacheVars, store>>

\* lines 58-66; sqlite3.connect can fail on a file that exists
GetDbConnection ==
    /\ InStoreCall /\ call.pc = "open"
    /\ IF ~store.exists
       THEN /\ result' = Done(Raise(FileNotFoundError))
            /\ call' = [call EXCEPT !.pc = "done"]
            /\ UNCHANGED conns
       ELSE \/ LET h == [owner |-> call.mark, mode |-> "ro"]
               IN  /\ conns' = [conns EXCEPT !.open = @ \cup {h}, !.opened = @ + 1]
                   /\ call' = [call EXCEPT !.pc = "execute", !.conn = Some(h)]
                   /\ UNCHANGED result
            \/ /\ result' = Done(Raise(OperationalError(<<"unable to open database file">>)))
               /\ call' = [call EXCEPT !.pc = "done"]
               /\ UNCHANGED conns
    /\ UNCHANGED <<book, cacheVars, store>>

\* variant: the query deletes the messages it has read
Execute_Deletes ==
    /\ InStoreCall /\ call.pc = "execute"
    /\ Val(call.conn) \in conns.open
    /\ \E o \in QueryOutcomes(store, call) :
           call' = [call EXCEPT !.pc = "close", !.used = call.conn,
                                !.sql = QueryText(call), !.pending = Some(o)]
    /\ conns' = [conns EXCEPT !.executed = @ + Executes(call.op)]
    /\ store' = [store EXCEPT !.messages = <<>>]
    /\ UNCHANGED <<book, cacheVars, result>>

\* the body of the try block: the queries on the handle of this call and the
\* mapping of the rows; any query can fail in the database
Execute ==
    /\ InStoreCall /\ call.pc = "execute"
    /\ Val(call.conn) \in conns.open
    /\ \/ \E o \in QueryOutcomes(store, call) :
              call' = [call EXCEPT !.pc = "close", !.used = call.conn,
                                   !.sql = QueryText(call), !.pending = Some(o)]
       \/ call' = [call EXCEPT !.pc = "close", !.used = call.conn,
                                !.sql = QueryText(call),
                                !.pending = Some(Raise(DatabaseError))]
    /\ conns' = [conns EXCEPT !.executed = @ + Executes(call.op)]
    /\ UNCHANGED <<book, cacheVars, result, store>>

\* variant: the handle is closed only after a normal return
Close_NotFinally ==
    /\ InStoreCall /\ call.pc = "close"
    /\ conns' = [conns EXCEPT !.open = IF Val(call.pending).raised THEN @
                                        ELSE @ \ {Val(call.conn)}]
    /\ call' = [call EXCEPT !.pc = "done"]
    /\ result' = Done(Val(call.pending))
    /\ UNCHANGED <<book, cacheVars, store>>

\* finally: conn.close(), then the return or the exception reaches the caller
Close ==
    /\ InStoreCall /\ call.pc = "close"
    /\ conns' = [conns EXCEPT !.open = @ \ {Val(call.conn)}]
    /\ call' = [call EXCEPT !.pc = "done"]
    /\ result' = Done(Val(call.pending))
    /\ UNCHANGED <<book, cacheVars, store>>

\* the caller takes the result and is free to call again
Again ==
    /\ InStoreCall /\ call.pc = "done"
    /\ call' = [op |-> "none", mark |-> 1 - call.mark]
    /\ result' = NoResult
    /\ UNCHANGED <<book, cacheVars, store, conns>>

\* stores of at most one message, and the missing file
SmallStores == {NoStore} \cup {s \in MessageStores : Len(s.messages) <= 1}

InitStore ==
    /\ book = <<>>
    /\ InitCache
    /\ call = NoCall
    /\ result = NoResult
    /\ store \in SmallStores
    /\ conns = NoConns

NextStore ==
    \/ BeginStoreTool
    \/ GetDbConnection
    \/ Execute
    \/ Close
    \/ Again

SpecStore == InitStore /\ [][NextStore]_vars

\* one call of get_messages on every store
InitPages ==
    /\ book = <<>>
    /\ InitCache
    /\ call = NoCall
    /\ result = NoResult
    /\ store \in MessageStores \cup {NoStore}
    /\ conns = NoConns

NextPages ==
    \/ BeginGetMessages
    \/ GetDbConnection
    \/ Execute
    \/ Close

SpecPages == InitPages /\ [][NextPages]_vars

\* the caller keeps the answer of a call that returned and makes the same call
\* again (same tool, same arguments); nothing writes to the store in between
Repeat ==
    /\ InStoreCall /\ call.pc = "done"
    /\ "first" \notin DOMAIN call
    /\ result.done /\ ~result.value.raised
    /\ call' = [op |-> call.op, args |-> call.args, pc |-> "open", mark |-> 1 - call.mark,
                conn |-> None, used |-> None, sql |-> None, pending |-> None,
                first |-> result.value]
    /\ result' = NoResult
    /\ conns' = [conns EXCEPT !.opened = 0, !.executed = 0]
    /\ UNCHANGED <<book, cacheVars, store>>

\* a store tool call and its repetition on every store
InitRepeat ==
    /\ book = <<>>
    /\ InitCache
    /\ call = NoCall
    /\ result = NoResult
    /\ store \in MessageStores \cup {NoStore}
    /\ conns = NoConns

NextRepeat ==
    \/ BeginStoreTool
    \/ GetDbConnection
    \/ Execute
    \/ Close
    \/ Repeat

SpecRepeat == InitRepeat /\ [][NextRepeat]_vars

\* raw dates: before 2001, 2001-01-01, and the dates of two of the messages
RawDates == {0 - Second, 0, Dates[2], Dates[3]}

\* ISO texts with the Unix time they name
IsoInstants ==
    { [text |-> <<"2", "0", "0", "1", "-", "0", "1", "-", "0", "1", "T",
                  "0", "0", ":", "0", "0", ":", "0", "1", "Z">>,
       unix |-> AppleEpoch + 1],
      [text |-> <<"2", "0", "0", "1", "-", "0", "1", "-", "0", "1", "T",
                  "0", "0", ":", "0", "0", ":", "0", "2", "+", "0", "0", ":", "0", "0">>,
       unix |-> AppleEpoch + 2],
      [text |-> <<"2", "0", "0", "0", "-", "1", "2", "-", "3", "1", "T",
                  "2", "3", ":", "5", "9", ":", "5", "9", "Z">>,
       unix |-> AppleEpoch - 1],
      [text |-> <<"2", "0", "0", "1", "-", "0", "1", "-", "0", "1", " ",
                  "0", "1", ":", "0", "0", ":", "0", "1", "+", "0", "1", ":", "0", "0">>,
       unix |-> AppleEpoch + 1],
      [text |-> <<"2", "0", "0", "1", "-", "0", "1", "-", "0", "1">>,
       unix |-> AppleEpoch] }

DateArgs ==
    {IntArg(n) : n \in RawDates}
        \cup {StrArg(IntToText(n)) : n \in RawDates}
        \cup {StrArg(i.text) : i \in IsoInstants}
        \cup {StrArg(<<"n", "o", "w">>), StrArg(<<"2", "0", "0", "1", "-", "1", "3", "-", "0", "1">>)}

DateCalls ==
    {[op |-> o, args |-> [chat_id |-> c, date |-> d, limit |-> 2]] :
        o \in DateTools, c \in Chats \ {3}, d \in DateArgs}

BeginDateTool ==
    /\ call.op = "none"
    /\ \E c \in DateCalls : call' = Begun(c)
    /\ conns' = [conns EXCEPT !.opened = 0, !.executed = 0]
    /\ UNCHANGED <<book, cacheVars, result, store>>

\* one call of a timestamp-filtering tool on every store
InitDates ==
    /\ book = <<>>
    /\ InitCache
    /\ call = NoCall
    /\ result = NoResult
    /\ store \in MessageStores \cup {NoStore}
    /\ conns = NoConns

NextDates ==
    \/ BeginDateTool
    \/ GetDbConnection
    \/ Execute
    \/ Close

SpecDates == InitDates /\ [][NextDates]_vars

\* chats without participant, with one, and with two (a group chat)
ParticipantMaps == [{1, 2} -> {{}, {1}, {1, 2}}]

ChatStores ==
    {ChatStoreOf(m, q) :
        m \in UNION {[1..n -> MessageKinds] : n \in 0..MaxMessages}, q \in ParticipantMaps}

BeginGetConversationList ==
    /\ call.op = "none"
    /\ \E l \in PageLimits : call' = Begun([op |-> "get_conversation_list", args |-> [limit |-> l]])
    /\ conns' = [conns EXCEPT !.opened = 0, !.executed = 0]
    /\ UNCHANGED <<book, cacheVars, result, store>>

\* one call of get_conversation_list on every store
InitChats ==
    /\ book = <<>>
    /\ InitCache
    /\ call = NoCall
    /\ result = NoResult
    /\ store \in ChatStores \cup {NoStore}
    /\ conns = NoConns

NextChats ==
    \/ BeginGetConversationList
    \/ GetDbConnection
    \/ Execute
    \/ Close

SpecChats == InitChats /\ [][NextChats]_vars

\* a message that no chat_message_join row links to a chat
Unjoined == Message(Dates[1], 0, Some(<<"d">>), 0, 1)

LooseStores ==
    {StoreOf(m) : m \in UNION {[1..n -> MessageKinds \cup {Unjoined}] : n \in 0..MaxMessages}}

BeginGetMessage ==
    /\ call.op = "none"
    /\ \E i \in RowIds : call' = Begun([op |-> "get_message", args |-> [message_id |-> i]])
    /\ conns' = [conns EXCEPT !.opened = 0, !.executed = 0]
    /\ UNCHANGED <<book, cacheVars, result, store>>

\* one call of get_message on every store
InitMessage ==
    /\ book = <<>>
    /\ InitCache
    /\ call = NoCall
    /\ result = NoResult
    /\ store \in LooseStores \cup {NoStore}
    /\ conns = NoConns

NextMessage ==
    \/ BeginGetMessage
    \/ GetDbConnection
    \/ Execute
    \/ Close

SpecMessage == InitMessage /\ [][NextMessage]_vars

\* get_message_stats query by query: each cursor.execute reads the content the
\* store has at that moment, and the counts read so far are kept in the record
BeginGetMessageStats ==
    /\ call.op = "none"
    /\ call' = Begun([op |-> "get_message_stats", args |-> [none |-> 0]])
    /\ conns' = [conns EXCEPT !.opened = 0, !.executed = 0]
    /\ UNCHANGED <<book, cacheVars, result, store>>

\* lines 216-229: the next of the four queries, or its failure in the database
ExecuteStatsQuery ==
    /\ InStoreCall /\ call.op = "get_message_stats" /\ call.pc = "execute"
    /\ Val(call.conn) \in conns.open
    /\ LET k == conns.executed + 1
           n == StatsCount(store, k)
           sofar == IF call.pending = None THEN StatsRecord(0, 0, 0, 0)
                    ELSE Val(call.pending).value
           now == StatsRecord(IF k = 1 THEN n ELSE sofar.total_messages,
                              IF k = 2 THEN n ELSE sofar.sent_messages,
                              IF k = 3 THEN n ELSE sofar.total_contacts,
                              IF k = 4 THEN n ELSE sofar.total_conversations)
       IN  \/ call' = [call EXCEPT !.pc = IF k = Executes(call.op) THEN "close" ELSE "execute",
                                   !.used = call.conn, !.pending = Some(Return(now))]
           \/ call' = [call EXCEPT !.pc = "close", !.used = call.conn,
                                   !.pending = Some(Raise(DatabaseError))]
    /\ conns' = [conns EXCEPT !.executed = @ + 1]
    /\ UNCHANGED <<book, cacheVars, result, store>>

\* the application that owns the store appends a message
AppendMessage ==
    /\ store.exists
    /\ Len(store.messages) < MaxMessages
    /\ \E m \in MessageKinds : store' = [store EXCEPT !.messages = Append(@, m)]
    /\ UNCHANGED <<book, cacheVars, call, result, conns>>

\* one call of get_message_stats while the store grows
InitStats ==
    /\ book = <<>>
    /\ InitCache
    /\ call = NoCall
    /\ result = NoResult
    /\ store \in MessageStores \cup {NoStore}
    /\ conns = NoConns

NextStats ==
    \/ BeginGetMessageStats
    \/ GetDbConnection
    \/ ExecuteStatsQuery
    \/ AppendMessage
    \/ Close

SpecStats == InitStats /\ [][NextStats]_vars

----------------------------------------------------------------------------
(* The server: store tools, contact tools and the cache load, one call at a time *)

\* no call of any kind is in progress
ServerIdle ==
    /\ call.op = "none"
    /\ ~result.done
    /\ \A t \in Threads : pc[t] = "idle"

\* the caller takes the result of the call that ended
Taken ==
    /\ result.done
    /\ InStoreCall => call.pc = "done"
    /\ call' = NoCall
    /\ result' = NoResult
    /\ conns' = [conns EXCEPT !.opened = 0, !.executed = 0]
    /\ UNCHANGED <<book, cacheVars, store>>

ServerBooks == {b \in Books : Len(b) <= 1}

InitServer ==
    /\ book \in ServerBooks
    /\ InitCache
    /\ call = NoCall
    /\ result = NoResult
    /\ store \in SmallStores
    /\ conns = NoConns

CallStoreTool == ServerIdle /\ BeginStoreTool

CallGetContactsCount == ServerIdle /\ GetContactsCount

CallCheckContactsPermission == ServerIdle /\ CheckContactsPermission

\* get_all_contacts(limit=1, offset=0)
CallGetAllContacts ==
    /\ ServerIdle
    /\ \E out \in ToolOutcomes(get_all_contacts_script(book, 1, 0)) :
           /\ call' = [op |-> "get_all_contacts", limit |-> 1, offset |-> 0, out |-> out]
           /\ result' = Done(get_all_contacts(1, 0, out))
    /\ UNCHANGED <<book, cacheVars, storeVars>>

\* find_contact_by_name("A", limit=1)
CallFindContactByName ==
    /\ ServerIdle
    /\ \E out \in ToolOutcomes(Strip(find_contact_by_name_script(book, <<"A">>, 1, FALSE).stdout)) :
           /\ call' = FindCallOf(<<"A">>, 1, out, FALSE, FALSE)
           /\ result' = Done(find_contact_by_name(<<"A">>, 1, out))
    /\ UNCHANGED <<book, cacheVars, storeVars>>

CallLoadContactCache(t) == ServerIdle /\ Enter(t)

NextServer ==
    \/ CallStoreTool
    \/ GetDbConnection
    \/ Execute
    \/ Close
    \/ CallGetContactsCount
    \/ CallCheckContactsPermission
    \/ CallGetAllContacts
    \/ CallFindContactByName
    \/ Taken
    \/ \E t \in Threads :
           \/ CallLoadContactCache(t)
           \/ Issue(t)
           \/ Complete(t)
           \/ L777(t)
           \/ L778(t)
           \/ Store(t)
           \/ L801(t)
           \/ L805(t)
           \/ L806(t)

SpecServer == InitServer /\ [][NextServer]_vars

----------------------------------------------------------------------------
(* Lifecycle of the contact bridge *)

Phase == IF \E t \in Threads : pc[t] # "idle" THEN "loading"
         ELSE IF CONTACT_CACHE = None THEN "uninitialized"
         ELSE "ready"

Returned(t) == pc[t] = "idle" /\ ret[t] \in {"cached", "loaded", "failed", "raised"}

\* C1: in sequential use the external enumeration is issued only while
\* CONTACT_CACHE is None; once an invocation has returned, both globals are
\* not None and no further enumeration is issued (at most one in all); the
\* bridge never goes from ready to another phase.
C1_LoadOnce ==
    /\ []((\E t \in Threads : Returned(t)) =>
             (CONTACT_CACHE # None /\ CONTACT_PHONE_LOOKUP # None /\ calls <= 1))
    /\ [][/\ calls' # calls => (CONTACT_CACHE = None /\ Phase = "loading" /\ calls = 0)
          /\ Phase = "ready" => Phase' = "ready"
          /\ Phase' = "ready" => Phase \in {"loading", "ready"}]_vars

\* a second invocation has returned at once, after a first one that loaded or failed
C1_Witness ==
    /\ calls = 1
    /\ Phase = "ready"
    /\ \E t \in Threads : ret[t] = "cached"
    /\ \E t \in Threads : ret[t] \in {"loaded", "failed"}

\* C2: (sequential use) an invocation whose external enumeration failed returns
\* normally, with both maps empty; the load is not retried by a later invocation.
C2_FailureLeavesEmpty ==
    \A t \in Threads :
        /\ ret[t] # "raised"
        /\ ret[t] = "failed" =>
              /\ CONTACT_CACHE = Some(EmptyDict)
              /\ CONTACT_PHONE_LOOKUP = Some(EmptyDict)
              /\ calls = 1

\* a load failed on a non-empty address book and a later invocation returned at once
C2_Witness ==
    /\ load_contact_cache_script(book) # <<>>
    /\ \E t \in Threads : ret[t] = "failed"
    /\ \E t \in Threads : ret[t] = "cached"

\* C3: once an invocation has finished populating the maps from a successful
\* enumeration, CONTACT_CACHE and CONTACT_PHONE_LOOKUP never change again,
\* for every interleaving of other invocations.
C3_BuiltOnce ==
    [][populated => (CONTACT_CACHE' = CONTACT_CACHE /\ CONTACT_PHONE_LOOKUP' = CONTACT_PHONE_LOOKUP)]_vars

\* C4: the check of line 717 is not held back by another caller that is
\* loading, and every caller that passed it issues its own external
\* enumeration: no mutual exclusion around the check-then-act.
C4_NoMutualExclusion ==
    [][\A t \in Threads :
          /\ (pc[t] = "idle" /\ inv'[t] # inv[t] /\ CONTACT_CACHE = None) => pc'[t] = "call"
          /\ (pc[t] = "call" /\ pc'[t] # "call") => (pc'[t] = "wait" /\ calls' = calls + 1)]_vars

\* two enumerations in flight for one cache load
C4_Witness ==
    /\ CONTACT_CACHE = None
    /\ calls = 2
    /\ \A t \in Threads : pc[t] = "wait"

----------------------------------------------------------------------------
(* normalize_phone *)

\* the digits of a text, by position: the k-th digit is the character at the
\* position that has exactly k digit positions up to and including itself
DigitPositions(p) == {i \in 1..Len(p) : p[i] \in Digits}
DigitsOf(p) ==
    LET P == DigitPositions(p)
    IN  [k \in 1..Cardinality(P) |->
            p[CHOOSE i \in P : Cardinality({j \in P : j <= i}) = k]]

NormalizedCall == call.op = "normalize_phone" /\ result.done

\* C5: normalize_phone removes every non-digit; exactly 10 digits give "1"
\* followed by them; 11 digits starting with "1", and every other digit
\* count, give the digits unchanged; the result is digit-only.
C5_NormalizePhone ==
    NormalizedCall =>
        LET d == DigitsOf(call.phone)
            r == result.value
        IN  /\ Len(d) = 10 => r = <<"1">> \o d
            /\ (Len(d) = 11 /\ d[1] = "1") => r = d
            /\ Len(d) # 10 => r = d
            /\ \A i \in 1..Len(r) : r[i] \in Digits
            /\ call.phone = SpecExample =>
                  r = <<"1", "4", "6", "9", "8", "2", "6", "4", "8", "1", "4">>

\* a text of 11 characters with 10 digits and a separator has been normalized
C5_Witness ==
    /\ NormalizedCall
    /\ Len(call.phone) = 11
    /\ Len(DigitsOf(call.phone)) = 10
    /\ Len(result.value) = 11

----------------------------------------------------------------------------
(* The two maps after a load *)

\* a successful load has returned and no invocation is in progress
LoadedReady == populated /\ Phase = "ready"

Promotable(v) == LET d == DigitsOf(v) IN Len(d) = 10 \/ (Len(d) = 11 /\ d[1] = "1")
Key11(v) == LET d == DigitsOf(v) IN IF Len(d) = 10 THEN <<"1">> \o d ELSE d

PhoneValues == {<<i, j>> \in (1..Len(book)) \X (1..3) : j <= Len(book[i].phones)}
PhoneAt(ij) == book[ij[1]].phones[ij[2]].value

C7_ReverseConsistent ==
    LoadedReady =>
        LET L == Val(CONTACT_PHONE_LOOKUP)
            C == Val(CONTACT_CACHE)
        IN  \A k \in DOMAIN L :
                /\ L[k] \in DOMAIN C
                /\ \E i \in 1..Len(C[L[k]]) :
                      normalize_phone(C[L[k]][i]) \in {k, <<"1">> \o k}

----------------------------------------------------------------------------
(* get_all_contacts: pagination *)

\* a call of get_all_contacts returned a result that is not an error payload
ContactsPage ==
    /\ call.op = "get_all_contacts"
    /\ result.done
    /\ "error" \notin DOMAIN result.value

Total == Len(book)

\* C8: for offset >= 0 and limit >= 1, pagination.returned is total - offset
\* when offset + limit >= total (nothing, when offset is at or beyond total:
\* a count is not negative), and limit otherwise.
C8_Returned ==
    (ContactsPage /\ call.offset >= 0 /\ call.limit >= 1) =>
        result.value.pagination.returned =
            IF call.offset + call.limit >= Total
            THEN (IF call.offset >= Total THEN 0 ELSE Total - call.offset)
            ELSE call.limit

\* C9 as stated: has_more == ((offset + limit) < total) in every non-error
\* result, with offset and limit echoed and total the real total.
C9_HasMore_AnyLimit ==
    ContactsPage =>
        /\ result.value.pagination.offset = call.offset
        /\ result.value.pagination.limit = call.limit
        /\ result.value.pagination.total = Total
        /\ result.value.pagination.has_more = ((call.offset + call.limit) < Total)

\* C9 (amended): for limit >= 0, every non-error result has
\* has_more == ((offset + limit) < total), offset and limit echoed and total
\* the real total, on the DATA path and on the EMPTY path.
C9_HasMore ==
    (ContactsPage /\ call.limit >= 0) =>
        /\ result.value.pagination.offset = call.offset
        /\ result.value.pagination.limit = call.limit
        /\ result.value.pagination.total = Total
        /\ result.value.pagination.has_more = ((call.offset + call.limit) < Total)

\* a page that is not the last one: has_more is True
C9_Witness ==
    /\ ContactsPage
    /\ call.limit >= 1
    /\ call.offset + call.limit < Total
    /\ result.value.pagination.has_more

\* C10: with offset at or beyond the total, a call whose external call
\* succeeded returns no contacts, returned = 0, has_more = False and the real
\* total, and the result is not an error payload.
C10_OffsetBeyondTotal ==
    (call.op = "get_all_contacts" /\ result.done /\ call.exit0 /\ call.offset >= Total) =>
        /\ "error" \notin DOMAIN result.value
        /\ result.value.contacts = EmptyDict
        /\ result.value.pagination.returned = 0
        /\ result.value.pagination.has_more = FALSE
        /\ result.value.pagination.total = Total

\* a call with offset beyond a non-empty address book has returned
C10_Witness ==
    /\ ContactsPage
    /\ call.exit0
    /\ Total >= 1
    /\ call.offset > Total
    /\ call.limit >= 1
    /\ result.value.pagination.total = Total

----------------------------------------------------------------------------
(* find_contact_by_name: the search and its result *)

FindCall == result.done /\ call.op = "find_contact_by_name"

\* the call ran the script and the script printed its result
FindSearched == FindCall /\ call.script /\ call.out.returncode = 0

SearchText == Strip(call.name)

Has(a, b) == \E k \in 0..(Len(a) - Len(b)) : SubSeq(a, k + 1, k + Len(b)) = b

PrimaryIdx ==
    {i \in 1..Len(book) :
        IF call.cs THEN Has(book[i].name, SearchText)
        ELSE Has(FoldText(book[i].name), FoldText(SearchText))}

LenientIdx ==
    {i \in 1..Len(book) :
        \/ Has(FoldText(book[i].name), FoldText(SearchText))
        \/ Has(FoldText(SearchText), FoldText(book[i].name))}

FallbackIdx == {i \in LenientIdx : i <= 100}

ChosenIdx == IF PrimaryIdx # {} THEN PrimaryIdx ELSE FallbackIdx

KeptIdx == {i \in ChosenIdx : Cardinality({j \in ChosenIdx : j < i}) < call.limit}

KeptAt(k) == CHOOSE i \in KeptIdx : Cardinality({j \in KeptIdx : j < i}) = k - 1

\* C11: the matches of find_contact_by_name are the first 'limit' people of
\* the primary filter when it matches anyone, and otherwise the first 'limit'
\* of the first 100 people whose name, ignoring case, contains the search text
\* or is contained in it; the two are never mixed, and a reported count is
\* the number of matches and at most the limit
C11_FallbackScan ==
    FindSearched =>
        LET v == result.value
        IN  /\ "matches" \in DOMAIN v
            /\ Len(v.matches) = Cardinality(KeptIdx)
            /\ Len(v.matches) <= call.limit
            /\ \A k \in 1..Len(v.matches) :
                   /\ v.matches[k].name = Strip(book[KeptAt(k)].name)
                   /\ Len(v.matches[k].phones) = Len(book[KeptAt(k)].phones)
            /\ "count" \in DOMAIN v => v.count = Len(v.matches) /\ v.count <= call.limit

\* the fallback matched within the first 100 people and left out a later
\* person who matches too
C11_Witness ==
    /\ FindSearched
    /\ PrimaryIdx = {}
    /\ FallbackIdx # {}
    /\ \E i \in LenientIdx : i > 100
    /\ "count" \in DOMAIN result.value

\* C12: a search that ran and matched nobody returns an empty 'matches' list
\* and no 'error' key; an 'error' key appears only for a blank name or a
\* failed external call
C12_NoMatchNotError ==
    FindCall =>
        LET v == result.value
            blank == \A k \in 1..Len(call.name) : call.name[k] \in Whitespace
            failed == call.out.kind \in {"timeout", "oserror"}
                          \/ (call.out.kind = "exit" /\ call.out.returncode # 0)
        IN  /\ "error" \in DOMAIN v => blank \/ failed
            /\ (FindSearched /\ ChosenIdx = {}) =>
                   /\ "error" \notin DOMAIN v
                   /\ "matches" \in DOMAIN v
                   /\ v.matches = <<>>

C12_Witness == FindSearched /\ ChosenIdx = {} /\ Len(book) >= 1

----------------------------------------------------------------------------
(* The external call: classification of its outcomes *)

Called(op) == result.done /\ call.op = op

Succeeded == call.out.kind = "exit" /\ call.out.returncode = 0
NonZeroExit == call.out.kind = "exit" /\ call.out.returncode # 0
TimedOut == call.out.kind = "timeout"

\* the permission error of lines 820-826
RemediationMessage ==
    <<"Permission denied", ": Please grant Contacts access.",
      "1. Open System Settings > Privacy & Security > Automation",
      "2. Find your terminal app (Terminal/iTerm/VS Code) in the list",
      "3. Enable the checkbox next to 'Contacts'",
      "4. Restart your terminal and try again">>

AutomationDenied ==
    NonZeroExit /\ \E i \in 1..Len(call.out.stderr) :
                       call.out.stderr[i] = "Not authorized to send Apple events"

\* C13: run_applescript returns the trimmed output on exit status 0, raises
\* the permission error with the remediation steps on a non-zero exit whose
\* stderr holds 'Not authorized to send Apple events', and raises 'Failed to
\* run AppleScript: AppleScript error: <stderr>' on every other non-zero exit
C13_Classification ==
    Called("run_applescript") =>
        LET r == result.value
        IN  /\ Succeeded => ~r.raised /\ r.value = Strip(call.out.stdout)
            /\ AutomationDenied => r.raised /\ r.msg = RemediationMessage
            /\ (NonZeroExit /\ ~AutomationDenied) =>
                   /\ r.raised
                   /\ r.msg = <<"Failed to run AppleScript: ", "AppleScript error: ">>
                                  \o call.out.stderr

TimedOutMessage(n) == <<"AppleScript execution timed out after ", n, " seconds">>

BudgetText ==
    CASE call.op = "get_contacts_count" -> "5"
      [] call.op \in {"check_contacts_permission", "get_all_contacts",
                      "find_contact_by_name"} -> "30"
      [] call.op = "load_contact_cache" -> "60"
      [] call.op = "run_applescript" ->
             (CASE call.timeout = 5 -> "5" [] call.timeout = 30 -> "30"
                [] call.timeout = 60 -> "60")

\* the message of the error the external call of the operation raised
RaisedMessage ==
    CASE call.op \in {"run_applescript", "load_contact_cache"} -> result.value.msg
      [] call.op \in {"get_contacts_count", "get_all_contacts", "find_contact_by_name"} ->
             result.value.error
      [] call.op = "check_contacts_permission" ->
             IF result.value.message[1] = "Unable to access Contacts: "
             THEN Tail(result.value.message) ELSE result.value.message

\* C14: a timed-out external call raises 'AppleScript execution timed out
\* after N seconds' with N the budget of the operation (5 for the count, 30
\* for the permission probe, the listing and the search, 60 for the cache
\* load), not wrapped as 'Failed to run AppleScript' and not a permission error
C14_Timeout ==
    (result.done /\ TimedOut) =>
        /\ call.op \in {"run_applescript", "load_contact_cache"} => result.value.raised
        /\ call.op \in {"get_contacts_count", "get_all_contacts", "find_contact_by_name"} =>
               DOMAIN result.value = {"error"}
        /\ RaisedMessage = TimedOutMessage(BudgetText)
        /\ RaisedMessage[1] # "Failed to run AppleScript: "
        /\ RaisedMessage # RemediationMessage
        /\ call.op = "check_contacts_permission" => "instructions" \notin DOMAIN result.value

C14_Witness == Called("get_contacts_count") /\ TimedOut

ContactTools == {"get_contacts_count", "get_all_contacts", "find_contact_by_name"}

\* C15: get_contacts_count, get_all_contacts and find_contact_by_name return
\* a mapping for every outcome of the external call, and {'error': message}
\* when it failed; run_applescript raises on every non-zero exit and timeout
C15_ToolsNeverRaise ==
    result.done =>
        /\ call.op \in ContactTools =>
               /\ "raised" \notin DOMAIN result.value
               /\ (NonZeroExit \/ TimedOut) =>
                      /\ DOMAIN result.value = {"error"}
                      /\ result.value.error # <<>>
        /\ call.op = "run_applescript" =>
               /\ (NonZeroExit \/ TimedOut) => result.value.raised /\ result.value.value = <<>>
               /\ Succeeded => ~result.value.raised

\* the count tool was given a text that is not a number
C15_Witness ==
    /\ Called("get_contacts_count")
    /\ Succeeded
    /\ call.out.stdout = <<"?", "\n">>
    /\ "error" \in DOMAIN result.value

\* C16: check_contacts_permission returns has_permission True iff the probe
\* exits with status 0, carries 'instructions' exactly when the failure is
\* the automation permission denial, and otherwise answers a failure with an
\* 'Unable to access Contacts' message and no instructions
C16_PermissionProbe ==
    Called("check_contacts_permission") =>
        LET v == result.value
        IN  /\ "raised" \notin DOMAIN v
            /\ v.has_permission = Succeeded
            /\ ("instructions" \in DOMAIN v) = AutomationDenied
            /\ (~Succeeded /\ ~AutomationDenied) =>
                   v.message[1] = "Unable to access Contacts: "

----------------------------------------------------------------------------
(* The store tools: handles, the missing file, and the pages of get_messages *)

InCall == call.op # "none"
CallEnded == InCall /\ call.pc = "done"

\* C17: every store tool opens its own read-only handle and closes it before
\* the call ends, on a return as on an exception; between calls no handle is
\* open, and a query runs only on the handle its own call opened
C17_HandlesClosed ==
    /\ Cardinality(conns.open) <= 1
    /\ \A h \in conns.open : h.mode = "ro"
    /\ (~InCall \/ call.pc \in {"open", "done"}) => conns.open = {}
    /\ (InCall /\ call.pc \in {"execute", "close"}) =>
           /\ conns.open = {[owner |-> call.mark, mode |-> "ro"]}
           /\ call.conn = Some([owner |-> call.mark, mode |-> "ro"])
    /\ (InCall /\ call.used # None) => Val(call.used).owner = call.mark
    /\ (CallEnded /\ conns.executed > 0) => conns.opened = 1

\* a later call of a sequence ended with an exception raised by its query
C17_Witness ==
    /\ CallEnded
    /\ call.mark = 1
    /\ conns.executed > 0
    /\ result.done /\ result.value.raised

\* C18: with the store file missing a store tool raises FileNotFoundError
\* before any handle is opened or any query is executed, and that is the
\* whole call: no result, no second attempt
C18_MissingFile ==
    (InCall /\ ~store.exists) =>
        /\ conns.opened = 0 /\ conns.executed = 0 /\ conns.open = {}
        /\ call.pc \in {"open", "done"}
        /\ call.pending = None
        /\ call.pc = "done" =>
               /\ result.done /\ result.value.raised
               /\ result.value.msg[1] = "FileNotFoundError"
               /\ result.value.value = <<>>

C18_Witness == CallEnded /\ ~store.exists /\ call.op = "get_message_stats"

\* C19: the token get_messages puts after ORDER BY message.date is ASC or
\* DESC for every value of the order argument, and chat_id, limit and offset
\* are bound as parameters
C19_OrderToken ==
    (InCall /\ call.op = "get_messages" /\ call.sql # None) =>
        /\ Val(call.sql).order_by[2] \in {"ASC", "DESC"}
        /\ Val(call.sql).parameters = <<call.args.chat_id, call.args.limit, call.args.offset>>

ChatIdx == {i \in 1..Len(store.messages) : store.messages[i].chat = call.args.chat_id}

DistinctDates ==
    \A i, j \in ChatIdx : i # j => store.messages[i].date # store.messages[j].date

\* the position, from 0, of message i in its chat sorted in the direction of the call
Rank(i) ==
    Cardinality({j \in ChatIdx :
                    IF call.args.order = "DESC"
                    THEN store.messages[j].date > store.messages[i].date
                    ELSE store.messages[j].date < store.messages[i].date})

GotPage ==
    /\ CallEnded /\ call.op = "get_messages"
    /\ call.args.order \in {"ASC", "DESC"}
    /\ result.done /\ ~result.value.raised
    /\ DistinctDates

\* the rows are the messages at positions offset .. offset + limit - 1
PageAtPositions ==
    LET rows == result.value.value
        O == call.args.offset
        L == call.args.limit
    IN  /\ Len(rows) = Cardinality({i \in ChatIdx : O <= Rank(i) /\ Rank(i) <= O + L - 1})
        /\ \A k \in 1..Len(rows) :
               /\ rows[k].id \in ChatIdx
               /\ Rank(rows[k].id) = O + k - 1
               /\ rows[k].text = store.messages[rows[k].id].text

\* the pages at offsets from * limit, (from + 1) * limit, ..., one after another
RECURSIVE PagesFrom(_, _)
PagesFrom(from, to) ==
    IF from > to THEN <<>>
    ELSE (CHOOSE r \in get_messages_query(store, call.args.chat_id, call.args.limit,
                                          from * call.args.limit, call.args.order) : TRUE).value
             \o PagesFrom(from + 1, to)

PagesCoverChat ==
    call.args.limit >= 1 =>
        LET all == PagesFrom(0, Cardinality(ChatIdx))
        IN  /\ Len(all) = Cardinality(ChatIdx)
            /\ \A k \in 1..Len(all) : all[k].id \in ChatIdx /\ Rank(all[k].id) = k - 1

\* C20 as stated, for every limit and offset: on a chat of pairwise distinct
\* dates get_messages returns the messages at positions offset .. offset +
\* limit - 1 of the chat sorted by date in the direction asked
C20_Pages_AnyLimit == GotPage => PageAtPositions /\ PagesCoverChat

\* C20: the same for limit >= 0 and offset >= 0; the pages at offsets 0, L,
\* 2L, ... are disjoint and one after another make up the whole sorted chat
C20_Pages ==
    (GotPage /\ call.args.limit >= 0 /\ call.args.offset >= 0) =>
        PageAtPositions /\ PagesCoverChat

\* T1 < T2 < T3 in one chat: limit 2, offset 2, DESC returns [T1]
C20_Witness ==
    /\ GotPage
    /\ Cardinality(ChatIdx) = 3
    /\ call.args.limit = 2 /\ call.args.offset = 2 /\ call.args.order = "DESC"
    /\ Len(result.value.value) = 1
    /\ store.messages[result.value.value[1].id].date = Dates[1]

----------------------------------------------------------------------------
(* The two read paths of the server *)

LoadRunning == \E t \in Threads : pc[t] # "idle"

\* C21: no step of any tool changes the content of the store; the cache
\* globals change only in steps of load_contact_cache, never while a store
\* tool runs; and a store handle is opened only by a store tool, never by a
\* contact tool or the cache load
C21_ReadOnlyPaths ==
    [][ /\ store' = store
        /\ (CONTACT_CACHE' # CONTACT_CACHE \/ CONTACT_PHONE_LOOKUP' # CONTACT_PHONE_LOOKUP) =>
               /\ LoadRunning
               /\ call.op = "none" /\ call' = call
        /\ (conns'.open # conns.open \/ conns'.opened > conns.opened
                \/ conns'.executed > conns.executed) =>
               /\ InStoreCall
               /\ ~LoadRunning
               /\ call.op \in {"get_recent_messages", "get_message_stats", "get_message",
                               "get_message_count", "get_messages"}
      ]_vars

\* a store tool has returned its rows after the cache was populated
C21_Witness ==
    /\ CONTACT_CACHE # None
    /\ Val(CONTACT_CACHE) # EmptyDict
    /\ InStoreCall /\ call.pc = "done"
    /\ result.done /\ ~result.value.raised
    /\ Len(store.messages) >= 1

----------------------------------------------------------------------------
(* Repeated store queries *)

\* the identical call was made twice and both calls returned
Repeated ==
    /\ InStoreCall /\ "first" \in DOMAIN call
    /\ call.pc = "done" /\ result.done /\ ~result.value.raised

----------------------------------------------------------------------------
(* Date arguments *)

\* a timestamp-filtering tool has got past the conversion of its date argument
\* or has left it by an exception
DateConverted == InStoreCall /\ call.op \in DateTools /\ call.used # None

\* the bound the tool passes to its query
DateBound ==
    LET p == Val(call.sql).parameters IN IF Len(p) = 1 THEN p[1] ELSE p[2]

\* C23: the five timestamp-filtering tools use a raw platform-epoch integer, given
\* as an integer or as its decimal string and also when negative, unchanged as the
\* bound; they convert an ISO-8601 text to (unix_seconds - 978307200) * 10^9; and a
\* later ISO instant never gets a smaller bound
C23_DateBound ==
    DateConverted =>
        /\ \A n \in RawDates :
               call.args.date \in {IntArg(n), StrArg(IntToText(n))} =>
                   call.sql # None /\ DateBound = n
        /\ \A i \in IsoInstants :
               call.args.date = StrArg(i.text) =>
                   /\ call.sql # None /\ DateBound = (i.unix - AppleEpoch) * Second
                   /\ \A j \in IsoInstants :
                          j.unix <= i.unix => apple_epoch(StrArg(j.text)).value <= DateBound

----------------------------------------------------------------------------
(* The conversation list *)

\* get_conversation_list has returned its list
ListReturned ==
    /\ InStoreCall /\ call.op = "get_conversation_list"
    /\ call.pc = "done" /\ result.done /\ ~result.value.raised

Conversations == result.value.value

\* the messages joined to the chat of a returned conversation
MessagesOf(conv) ==
    {i \in 1..Len(store.messages) : ChatIdentifier(store.messages[i].chat) = conv.chat_id}

\* C24: message_count of every returned chat is the number of message records
\* joined to that chat, however many participant handles the chat has
C24_MessageCount ==
    ListReturned =>
        \A k \in 1..Len(Conversations) :
            Conversations[k].message_count = Cardinality(MessagesOf(Conversations[k]))

\* C25: last_message of every returned chat is the text of a message of that chat
\* with the greatest date among the messages of that chat, sent or received
C25_LastMessage ==
    ListReturned =>
        \A k \in 1..Len(Conversations) :
            \E i \in MessagesOf(Conversations[k]) :
                /\ \A j \in MessagesOf(Conversations[k]) :
                       store.messages[j].date <= store.messages[i].date
                /\ Conversations[k].last_message = store.messages[i].text

----------------------------------------------------------------------------
(* Single message lookup *)

\* get_message has returned
MessageReturned ==
    /\ InStoreCall /\ call.op = "get_message"
    /\ call.pc = "done" /\ result.done /\ ~result.value.raised

\* C26: get_message returns the record of the message with the given ROWID
\* whenever the store holds such a message, and None only when it holds none
C26_GetMessage ==
    MessageReturned =>
        IF call.args.message_id \in 1..Len(store.messages)
        THEN result.value.value = Some(MessageRow(store, call.args.message_id))
        ELSE result.value.value = None

----------------------------------------------------------------------------
(* What a returning caller of load_contact_cache finds *)

\* the entries a reader finds in a global (none while it is still None)
Entries(global) == IF global = None THEN EmptyDict ELSE Val(global)

\* both maps are empty, or hold every store of the enumeration of the book
Whole(cache, lookup) ==
    \/ Entries(cache) = EmptyDict /\ Entries(lookup) = EmptyDict
    \/ LET all == Stores(load_contact_cache_script(book))
       IN  \A k \in 1..Len(all) :
               IF all[k].dict = "CONTACT_CACHE"
               THEN all[k].key \in DOMAIN Entries(cache)
               ELSE all[k].key \in DOMAIN Entries(lookup)

\* C27: at every return of an invocation of load_contact_cache (the early return
\* of line 718, the end of the try block, the end of the handler) the maps are
\* either empty or complete, whatever another invocation is doing
C27_AllOrNothing ==
    [][\A t \in Threads :
           (pc'[t] = "idle" /\ (pc[t] # "idle" \/ inv'[t] > inv[t])) =>
               Whole(CONTACT_CACHE', CONTACT_PHONE_LOOKUP')]_vars

----------------------------------------------------------------------------
(* Message statistics *)

\* get_message_stats has returned its record
StatsReturned ==
    /\ InStoreCall /\ call.op = "get_message_stats"
    /\ call.pc = "done" /\ result.done /\ ~result.value.raised

\* C28: every record get_message_stats returns has sent + received = total,
\* 0 <= sent <= total and received >= 0, also when messages are appended to the
\* store between its four count queries
C28_StatsConsistent ==
    StatsReturned =>
        LET r == result.value.value
        IN  /\ r.sent_messages + r.received_messages = r.total_messages
            /\ 0 <= r.sent_messages /\ r.sent_messages <= r.total_messages
            /\ r.received_messages >= 0

----------------------------------------------------------------------------
(* The name embedded in the search script *)

\* find_contact_by_name built its script and ran it
FindScripted == FindCall /\ call.script

\* C29: whatever the name argument (double quotes and backslashes included), the
\* text embedded at line 1092 is one well-formed string literal: it closes at the
\* quote of the template, nothing of the name is left after it, and its value is
\* the stripped name
C29_NameLiteral ==
    FindScripted =>
        LET lit == SearchTextLiteral(EscapeQuotes(SearchText))
        IN  lit.closed /\ lit.rest = <<>> /\ lit.value = SearchText

====
